---- MODULE Spec2Model ----
(***************************************************************************)
(* A model of the mython interpreter: the line-buffered lexer of           *)
(* src/lexer.cpp (parse::Lexer, parse::Lexer::TextLine) and the object     *)
(* model and evaluator of src/unnamed/part_000 and src/runtime.cpp         *)
(* (runtime::ObjectHolder, runtime::Class, runtime::ClassInstance and the  *)
(* ast:: statement nodes).                                                 *)
(***************************************************************************)
EXTENDS Integers, Sequences, FiniteSets, TLC

VARIABLES
    in_,              \* Lexer::in_: the character stream and its position and state bits
    tokens_,          \* Lexer::tokens_: the tokens buffered so far
    curr_pos_,        \* Lexer::curr_pos_: 0-based index of the current token
    current_indent_,  \* Lexer::current_indent_
    lex_status,       \* "ok", or "LexerError" once NextToken has thrown
    ret,              \* what the last NextToken call returned (NoToken: none yet, or it threw)
    constructed,      \* whether Lexer::Lexer has run
    after_eof,        \* whether NextToken has been called with Eof as the current token
    build,            \* which ClassInstance and Class the program is built with
    globals,          \* the Closure the program's top-level statements run in
    heap,             \* the class instances made so far: class, fields, alive or destroyed
    self_name_,       \* Context's self-name
    method_params,    \* Method::formal_params of every method of every class
    calls,            \* the ClassInstance::Call records of the last statement
    status,           \* "ok", "error" once a statement has thrown, "ub" once undefined
    returned,         \* the holder the last statement's Execute returned
    last_statement,   \* the last top-level statement executed
    steps,            \* the number of top-level statements executed
    output_           \* what has been written to the Context's output stream

lexvars == <<in_, tokens_, curr_pos_, current_indent_, lex_status, ret, constructed,
             after_eof>>

rtvars == <<build, globals, heap, self_name_, method_params, calls, status, returned,
            last_statement, steps, output_>>

vars == <<lexvars, rtvars>>

-----------------------------------------------------------------------------
(* Bounds of the inputs.                                                   *)

\* The number of source lines of an input.
MaxLines == 3

\* The number of leading spaces of a source line.
MaxIndent == 4

\* the most class instances a program makes
MaxObjects == 2

\* the most top-level statements a program executes
MaxSteps == 3

-----------------------------------------------------------------------------
(* Characters and tokens.                                                  *)

\* What std::istream::get and peek return at the end of the input.
EOF == "EOF"

Tok(type, value) == [type |-> type, value |-> value, n |-> 0]

\* token_type::Number{n}
NumberToken(n) == [type |-> "Number", value |-> "", n |-> n]

Indent == Tok("Indent", "")
Dedent == Tok("Dedent", "")
Newline == Tok("Newline", "")
Eof == Tok("Eof", "")
NoToken == Tok("NoToken", "")

Letters == {"x", "y"}

IsAlpha(ch) == ch \in Letters

Decimals == <<"0", "1", "2", "3", "4", "5", "6", "7", "8", "9">>

IsDigit(ch) == \E d \in 1..10 : Decimals[d] = ch

-----------------------------------------------------------------------------
(* std::istream as the lexer uses it: get, unget, peek and eof.  A get     *)
(* past the last character returns EOF and sets eofbit and failbit; in a   *)
(* stream that is not good, get returns EOF and unget puts nothing back.   *)

Stream(chars) == [chars |-> chars, pos |-> 1, fail |-> FALSE, eof |-> FALSE]

Get(in) ==
    IF in.fail \/ in.eof
    THEN [ch |-> EOF, in |-> [in EXCEPT !.fail = TRUE]]
    ELSE IF in.pos > Len(in.chars)
    THEN [ch |-> EOF, in |-> [in EXCEPT !.fail = TRUE, !.eof = TRUE]]
    ELSE [ch |-> in.chars[in.pos], in |-> [in EXCEPT !.pos = @ + 1]]

Unget(in) ==
    IF in.fail
    THEN [in EXCEPT !.eof = FALSE]
    ELSE [in EXCEPT !.pos = @ - 1, !.eof = FALSE]

Peek(in) ==
    IF in.fail \/ in.eof \/ in.pos > Len(in.chars)
    THEN EOF
    ELSE in.chars[in.pos]

-----------------------------------------------------------------------------
(* Lexer::TextLine                                                         *)

RECURSIVE SkipSpacesLoop(_, _)
SkipSpacesLoop(in, space_count) ==
    LET g == Get(in)
    IN  IF g.ch = " "
        THEN SkipSpacesLoop(g.in, space_count + 1)
        ELSE [count |-> space_count, in |-> Unget(g.in)]

SkipSpaces(in) == SkipSpacesLoop(in, 0)

RECURSIVE SkipComment(_)
SkipComment(in) ==
    LET g == Get(in)
    IN  IF g.ch = "\n" \/ g.in.eof
        THEN Unget(g.in)
        ELSE SkipComment(g.in)

RECURSIVE ReadIdentifierLoop(_, _)
ReadIdentifierLoop(in, s) ==
    LET g == Get(in)
    IN  IF ~g.in.fail /\ (IsAlpha(g.ch) \/ g.ch = "_" \/ IsDigit(g.ch))
        THEN ReadIdentifierLoop(g.in, s \o g.ch)
        ELSE [tok |-> Tok("Id", s), in |-> Unget(g.in)]

ReadIdentifier(in, first_sym) == ReadIdentifierLoop(in, first_sym)

\* the for loop of ReadNumber: ds are the digits read so far
RECURSIVE ReadNumberLoop(_, _)

ReadNumberChar(g, ds) ==
    IF ~g.in.fail /\ IsDigit(g.ch)
    THEN ReadNumberLoop(g.in, Append(ds, (CHOOSE d \in 1..10 : Decimals[d] = g.ch) - 1))
    ELSE [ds |-> ds, in |-> Unget(g.in)]

ReadNumberLoop(in, ds) == ReadNumberChar(Get(in), ds)

\* digits without the zeros they start with
RECURSIVE Significant(_)
Significant(ds) ==
    IF ds # <<>> /\ ds[1] = 0 THEN Significant(Tail(ds)) ELSE ds

\* the digits of std::numeric_limits<int>::max()
IntMax == <<2, 1, 4, 7, 4, 8, 3, 6, 4, 7>>

\* the number that digits of equal count ds stand for is at most that of es
RECURSIVE AtMost(_, _)
AtMost(ds, es) ==
    \/ ds = <<>>
    \/ ds[1] < es[1]
    \/ ds[1] = es[1] /\ AtMost(Tail(ds), Tail(es))

\* std::stoi throws std::out_of_range when the number does not fit an int
FitsInt(ds) ==
    \/ Len(Significant(ds)) < Len(IntMax)
    \/ Len(Significant(ds)) = Len(IntMax) /\ AtMost(Significant(ds), IntMax)

\* std::stoi on digits that fit an int
RECURSIVE Stoi(_, _)
Stoi(ds, value) ==
    IF ds = <<>> THEN value ELSE Stoi(Tail(ds), value * 10 + ds[1])

\* Lexer::TextLine::ReadNumber: the token, or thrown when stoi throws
NumberRead(r) ==
    IF FitsInt(r.ds)
    THEN [tok |-> NumberToken(Stoi(r.ds, 0)), in |-> r.in, thrown |-> ""]
    ELSE [tok |-> NoToken, in |-> r.in, thrown |-> "out_of_range"]

ReadNumber(in, first_dig) ==
    NumberRead(ReadNumberLoop(in, <<(CHOOSE d \in 1..10 : Decimals[d] = first_dig) - 1>>))

ReadComparison(in, ch) ==
    [tok |-> IF ch = "!" THEN Tok("NotEq", "")
             ELSE IF ch = "=" THEN Tok("Eq", "")
             ELSE IF ch = "<" THEN Tok("LessOrEq", "")
             ELSE Tok("GreaterOrEq", ""),
     in |-> Get(in).in]

AllOf(toks, type) == \A i \in 1..Len(toks) : toks[i].type = type

IsEmpty(line) == line.tokens_ = <<>> \/ AllOf(line.tokens_, "Newline")

IsEofOnly(line) == line.tokens_ = <<>> \/ AllOf(line.tokens_, "Eof")

\* A mutant of AtEndOfInput: no Newline for a last line that ends without a newline
\* character.
AtEndOfInputNoNewline(line) == Append(line.tokens_, Eof)

\* The ch == EOF branch of ReadLine: the line's tokens once the input has ended.
AtEndOfInput(line) ==
    (IF ~IsEmpty(line) /\ line.tokens_[Len(line.tokens_)] # Newline
     THEN Append(line.tokens_, Newline)
     ELSE line.tokens_) \o <<Eof>>

RECURSIVE ReadLineLoop(_, _)

\* a token has been read: on to the next character of the line
TokenRead(r, line) ==
    ReadLineLoop(r.in, [line EXCEPT !.tokens_ = Append(@, r.tok)])

\* ReadNumber has returned or thrown
NumberDone(r, line) ==
    IF r.thrown # ""
    THEN [line |-> [line EXCEPT !.thrown = r.thrown], in |-> r.in]
    ELSE TokenRead(r, line)

\* the branches of the do-while loop of ReadLine on the character ch read from in
ReadLineChar(in, ch, line) ==
    IF ch = " "
    THEN ReadLineLoop(SkipSpaces(in).in, line)
    ELSE IF ch = "#"
    THEN ReadLineLoop(SkipComment(in), line)
    ELSE IF ch = "\n"
    THEN [line |-> [line EXCEPT !.tokens_ = Append(@, Newline)], in |-> in]
    ELSE IF ch = EOF
    THEN [line |-> [line EXCEPT !.tokens_ = AtEndOfInput(line)], in |-> in]
    ELSE IF IsDigit(ch)
    THEN NumberDone(ReadNumber(in, ch), line)
    ELSE IF IsAlpha(ch) \/ ch = "_"
    THEN TokenRead(ReadIdentifier(in, ch), line)
    ELSE IF ch \in {"!", "=", "<", ">"} /\ Peek(in) = "="
    THEN TokenRead(ReadComparison(in, ch), line)
    ELSE TokenRead([tok |-> Tok("Char", ch), in |-> in], line)

ReadLineGot(g, line) == ReadLineChar(g.in, g.ch, line)

ReadLineLoop(in, line) == ReadLineGot(Get(in), line)

ReadLineIndented(s) ==
    ReadLineLoop(s.in, [indent_ |-> s.count, tokens_ |-> <<>>, thrown |-> ""])

ReadLine(in) == ReadLineIndented(SkipSpaces(in))

-----------------------------------------------------------------------------
(* Lexer                                                                   *)

\* The for loop of NextToken: read lines until one is not empty.
RECURSIVE ReadNonEmptyLine(_)

SkipEmpty(r) ==
    IF r.line.thrown = "" /\ IsEmpty(r.line) THEN ReadNonEmptyLine(r.in) ELSE r

ReadNonEmptyLine(in) == SkipEmpty(ReadLine(in))

Repeat(tok, n) == [i \in 1..n |-> tok]

\* A mutant of IndentStep: one Indent or Dedent whatever the difference.
IndentStepOneToken(toks, cur, line) ==
    IF IsEofOnly(line)
    THEN [t |-> toks \o Repeat(Dedent, cur \div 2), c |-> line.indent_]
    ELSE IF line.indent_ > cur THEN [t |-> Append(toks, Indent), c |-> line.indent_]
    ELSE IF line.indent_ < cur THEN [t |-> Append(toks, Dedent), c |-> line.indent_]
    ELSE [t |-> toks, c |-> cur]

\* The three indentation blocks of NextToken, in order, on (tokens_, current_indent_).
IndentStep(toks, cur, line) ==
    LET a == IF ~IsEofOnly(line) /\ line.indent_ > cur
             THEN [t |-> toks \o Repeat(Indent, (line.indent_ - cur) \div 2),
                   c |-> line.indent_]
             ELSE [t |-> toks, c |-> cur]
        b == IF ~IsEofOnly(line) /\ line.indent_ < a.c
             THEN [t |-> a.t \o Repeat(Dedent, (a.c - line.indent_) \div 2),
                   c |-> line.indent_]
             ELSE a
    IN  IF IsEofOnly(line) /\ b.c > 0
        THEN [t |-> b.t \o Repeat(Dedent, b.c \div 2), c |-> line.indent_]
        ELSE b

\* A mutant of BadIndent: the indent size is not checked.
BadIndentUnchecked(line) == FALSE

BadIndent(line) == line.indent_ % 2 # 0

\* A mutant of RepeatEof: at Eof the position moves on over one more Eof token.
RepeatEofAppends(in, toks, p, cur) ==
    [in |-> in, tokens_ |-> Append(toks, Eof), curr_pos_ |-> p,
     current_indent_ |-> cur, ret |-> Eof, status |-> "ok"]

\* NextToken when the last token is Eof and the position has run past it: the
\* position is taken back and the last token returned.
RepeatEof(in, toks, p, cur) ==
    [in |-> in, tokens_ |-> toks, curr_pos_ |-> p - 1,
     current_indent_ |-> cur, ret |-> toks[Len(toks)], status |-> "ok"]

\* NextToken throws: the position has moved on, no token has been added.
Thrown(in, toks, p, cur, what) ==
    [in |-> in, tokens_ |-> toks, curr_pos_ |-> p,
     current_indent_ |-> cur, ret |-> NoToken, status |-> what]

\* NextToken returns tokens_.at(curr_pos_).
Returned(in, toks, p, cur) ==
    [in |-> in, tokens_ |-> toks, curr_pos_ |-> p,
     current_indent_ |-> cur, ret |-> toks[p + 1], status |-> "ok"]

\* The tokens of the line go after the Indent and Dedent tokens.
Emplaced(s, r, p) == Returned(r.in, s.t \o r.line.tokens_, p, s.c)

\* NextToken on the line r that the for loop has ended with.
OnLine(r, toks, p, cur) ==
    IF r.line.thrown # ""
    THEN Thrown(r.in, toks, p, cur, r.line.thrown)
    ELSE IF BadIndent(r.line)
    THEN Thrown(r.in, toks, p, cur, "LexerError")
    ELSE Emplaced(IndentStep(toks, cur, r.line), r, p)

\* NextToken after ++curr_pos_.
NextTokenAt(in, toks, p, cur) ==
    IF p = Len(toks)
    THEN IF toks # <<>> /\ toks[Len(toks)] = Eof
         THEN RepeatEof(in, toks, p, cur)
         ELSE OnLine(ReadNonEmptyLine(in), toks, p, cur)
    ELSE Returned(in, toks, p, cur)

\* Lexer::NextToken as a function of the lexer's fields: the fields after the call,
\* what it returns and whether it throws.
NextTokenResult(in, toks, pos, cur) == NextTokenAt(in, toks, pos + 1, cur)

-----------------------------------------------------------------------------
(* The inputs: up to MaxLines source lines; every line but the last ends   *)
(* with a newline character, the last one may or may not.  A line is one   *)
(* token or nothing after 0..MaxIndent spaces, or one of OtherLines.       *)

Spaces(n) == [i \in 1..n |-> " "]

TokenLines == {Spaces(n) \o <<"x">> : n \in 0..MaxIndent}

BlankLines == {Spaces(n) : n \in 0..MaxIndent}

\* comments after an odd and an even indent; two tokens, a space and a comment
OtherLines ==
    { <<" ", "#", "x">>,
      <<" ", " ", "#">>,
      <<" ", " ", "y", "+", " ", "#">> }

SourceLines == TokenLines \cup BlankLines \cup OtherLines

RECURSIVE Text(_, _)
Text(ls, newline_at_end) ==
    IF ls = <<>>
    THEN <<>>
    ELSE IF Len(ls) = 1 /\ ~newline_at_end
    THEN ls[1]
    ELSE ls[1] \o <<"\n">> \o Text(Tail(ls), newline_at_end)

-----------------------------------------------------------------------------
(* runtime::ObjectHolder.  A holder is empty (None) or refers to a value.  *)
(* Number, String and Bool values are carried in the holder; a class       *)
(* instance is an object heap[id], and the holder either shares in owning  *)
(* it (Own and its copies) or does not (Share and its copies: a shared_ptr *)
(* whose deleter does nothing).                                            *)

Holder(k, n, s, b, id, own) ==
    [k |-> k, n |-> n, s |-> s, b |-> b, id |-> id, own |-> own]

\* ObjectHolder::None(): the empty holder
None == Holder("None", 0, "", FALSE, 0, FALSE)

\* no entry under a name in a Closure (count(name) = 0)
Absent == Holder("Absent", 0, "", FALSE, 0, FALSE)

Number(n) == Holder("Number", n, "", FALSE, 0, TRUE)

String(s) == Holder("String", 0, s, FALSE, 0, TRUE)

Bool(b) == Holder("Bool", 0, "", b, 0, TRUE)

ClassValue(name) == Holder("Class", 0, name, FALSE, 0, TRUE)

\* ObjectHolder::Own(ClassInstance) for the instance heap[id]
Own(id) == Holder("Instance", 0, "", FALSE, id, TRUE)

\* ObjectHolder::Share(object) for the instance heap[id]
Share(id) == Holder("Instance", 0, "", FALSE, id, FALSE)

\* The names of the modelled programs.  "" is the self-name of a Context in which no
\* Assignment has run.
Names == {"", "x", "y", "f", "self", "v", "w", "one", "two"}

\* runtime::Closure: a map from names to holders
EmptyClosure == [n \in Names |-> Absent]

Held(closure) == {closure[n] : n \in Names}

\* the instances that the holders hs share in owning
Owned(hs) == {h.id : h \in {g \in hs : g.k = "Instance" /\ g.own}}

-----------------------------------------------------------------------------
(* The AST nodes of the modelled programs (ast::Statement subclasses): the *)
(* node kind, a name, the dotted ids and the child nodes.                  *)

Node(op, s, ids, kids) == [op |-> op, s |-> s, ids |-> ids, kids |-> kids]

VariableValue(dotted_ids) == Node("VariableValue", "", dotted_ids, <<>>)

Assignment(var, rv) == Node("Assignment", var, <<>>, <<rv>>)

FieldAssignment(object, field_name, rv) == Node("FieldAssignment", field_name, object, <<rv>>)

MethodCall(object, method, args) == Node("MethodCall", method, <<>>, <<object>> \o args)

NewInstance(cls, args) == Node("NewInstance", cls, <<>>, args)

Return(statement) == Node("Return", "", <<>>, <<statement>>)

MethodBody(body) == Node("MethodBody", "", <<>>, <<body>>)

Compound(args) == Node("Compound", "", <<>>, args)

\* IfElse with an else_body, and with none (else_body == nullptr)
IfElse(condition, if_body, else_body) == Node("IfElse", "", <<>>, <<condition, if_body, else_body>>)

IfOnly(condition, if_body) == Node("IfElse", "", <<>>, <<condition, if_body>>)

\* ast::Print
PrintArgs(args) == Node("Print", "", <<>>, args)

Stringify(argument) == Node("Stringify", "", <<>>, <<argument>>)

Add(lhs, rhs) == Node("Add", "", <<>>, <<lhs, rhs>>)

Div(lhs, rhs) == Node("Div", "", <<>>, <<lhs, rhs>>)

Or(lhs, rhs) == Node("Or", "", <<>>, <<lhs, rhs>>)

And(lhs, rhs) == Node("And", "", <<>>, <<lhs, rhs>>)

Not(argument) == Node("Not", "", <<>>, <<argument>>)

\* Comparison with the comparator cmp: the name of one of runtime's six functions
Comparison(cmp, lhs, rhs) == Node("Comparison", cmp, <<>>, <<lhs, rhs>>)

NoStatement == Node("", "", <<>>, <<>>)

-----------------------------------------------------------------------------
(* runtime::Class.  The classes of the modelled programs:                  *)
(*   class A:            __init__(v): self.f = v     me(): return self     *)
(*                       set(v): self.f = v          get(): return self.f  *)
(*                       keep(): self.f = self                             *)
(*   class B(A):         get(): return self.f        only(): return self   *)
(*   class C(B):         me(): return self                                 *)
(*   class D:            __eq__(v): return v         __add__(v): return v  *)
(*                       __lt__(v): return v                               *)
(*                       early(v):  if v:                                  *)
(*                                      return v                           *)
(*                                      self.f = v                         *)
(*                                  print v                                *)
(*                                  self.f = v                             *)
(*                                  return self                            *)
(*   class E(A):         set(): return self          dup(v): return v      *)
(*                       dup(): return self          pick(v, w): return v  *)
(*                       assign(v): y = v; f = v; return y                 *)
(*                       peek(): return two          make(): y = D()       *)
(*   class F(A):         __str__(): return self.f                          *)
(*   class G(F):         (no methods)                                      *)
(*   class H:            __str__(): return f                               *)

INIT_METHOD == "__init__"

Method(name, formal_params, body) ==
    [name |-> name, formal_params |-> formal_params, body |-> body]

SetField == MethodBody(FieldAssignment(<<"self">>, "f", VariableValue(<<"v">>)))

ReturnSelf == MethodBody(Return(VariableValue(<<"self">>)))

ReturnField == MethodBody(Return(VariableValue(<<"self", "f">>)))

KeepSelf == MethodBody(FieldAssignment(<<"self">>, "f", VariableValue(<<"self">>)))

ReturnParam == MethodBody(Return(VariableValue(<<"v">>)))

EarlyReturn ==
    MethodBody(Compound(<<
        IfOnly(VariableValue(<<"v">>),
               Compound(<<Return(VariableValue(<<"v">>)),
                          FieldAssignment(<<"self">>, "f", VariableValue(<<"v">>))>>)),
        PrintArgs(<<VariableValue(<<"v">>)>>),
        FieldAssignment(<<"self">>, "f", VariableValue(<<"v">>)),
        Return(VariableValue(<<"self">>))>>))

PickFirst == MethodBody(Return(VariableValue(<<"v">>)))

AssignLocal ==
    MethodBody(Compound(<<
        Assignment("y", VariableValue(<<"v">>)),
        Assignment("f", VariableValue(<<"v">>)),
        Return(VariableValue(<<"y">>))>>))

ReturnGlobal == MethodBody(Return(VariableValue(<<"two">>)))

AssignNew == MethodBody(Compound(<<Assignment("y", NewInstance("D", <<>>))>>))

ReturnName == MethodBody(Return(VariableValue(<<"f">>)))

EQ_METHOD == "__eq__"

LT_METHOD == "__lt__"

ADD_METHOD == "__add__"

STR_METHOD == "__str__"

ClassNames == {"A", "B", "C", "D", "E", "F", "G", "H"}

NoClass == ""

\* Class::parent_
Parent(cls) ==
    CASE cls = "A" -> NoClass [] cls = "B" -> "A" [] cls = "C" -> "B" [] cls = "D" -> NoClass
      [] cls = "E" -> "A" [] cls = "F" -> "A" [] cls = "G" -> "F" [] cls = "H" -> NoClass

\* Class::methods_ as the class was constructed
Methods(cls) ==
    CASE cls = "A" -> << Method(INIT_METHOD, <<"v">>, SetField),
                         Method("me", <<>>, ReturnSelf),
                         Method("set", <<"v">>, SetField),
                         Method("get", <<>>, ReturnField),
                         Method("keep", <<>>, KeepSelf) >>
      [] cls = "B" -> << Method("get", <<>>, ReturnField),
                         Method("only", <<>>, ReturnSelf) >>
      [] cls = "C" -> << Method("me", <<>>, ReturnSelf) >>
      [] cls = "D" -> << Method(EQ_METHOD, <<"v">>, ReturnParam),
                         Method(LT_METHOD, <<"v">>, ReturnParam),
                         Method(ADD_METHOD, <<"v">>, ReturnParam),
                         Method("early", <<"v">>, EarlyReturn) >>
      [] cls = "E" -> << Method("set", <<>>, ReturnSelf),
                         Method("dup", <<"v">>, ReturnParam),
                         Method("dup", <<>>, ReturnSelf),
                         Method("pick", <<"v", "w">>, PickFirst),
                         Method("assign", <<"v">>, AssignLocal),
                         Method("peek", <<>>, ReturnGlobal),
                         Method("make", <<>>, AssignNew) >>
      [] cls = "F" -> << Method(STR_METHOD, <<>>, ReturnField) >>
      [] cls = "G" -> << >>
      [] cls = "H" -> << Method(STR_METHOD, <<>>, ReturnName) >>

MethodNames ==
    {INIT_METHOD, "me", "set", "get", "keep", "only", "none", EQ_METHOD, LT_METHOD,
     ADD_METHOD, "early", "dup", "pick", "assign", "peek", "make",
     STR_METHOD}

\* an element of Method::formal_params: a parameter's name, or the holder that Call
\* of src/runtime.cpp has put in its place
Param(name) == [name |-> name, holder |-> Absent]

Overwritten(holder) == [name |-> "", holder |-> holder]

\* Method::formal_params of every method as the classes were constructed
DeclaredParams ==
    [cls \in ClassNames |->
        [i \in 1..Len(Methods(cls)) |->
            [k \in 1..Len(Methods(cls)[i].formal_params) |->
                Param(Methods(cls)[i].formal_params[k])]]]

\* the entry a name ends up with when the entries are written in order: the last one
LastOf(found) == IF found = {} THEN 0 ELSE CHOOSE i \in found : \A j \in found : j <= i

NamedIn(methods, name) == {i \in 1..Len(methods) : methods[i].name = name}

\* the entry a name keeps when only its first write takes effect
FirstOf(found) == IF found = {} THEN 0 ELSE CHOOSE i \in found : \A j \in found : i <= j

\* a by-name index that keeps the first method of a name
FirstByName(cls, name) == FirstOf(NamedIn(Methods(cls), name))

\* Class::Class: methods_by_name_[name] is the index of the last method of that name
\* (0: none)
MethodsByName(cls, name) == LastOf(NamedIn(Methods(cls), name))

\* a const Method*: the method Methods(cls)[idx], or nullptr
MethodPtr(cls, idx) == [cls |-> cls, idx |-> idx]

NoMethod == MethodPtr(NoClass, 0)

\* Class::GetMethod of src/runtime.cpp: the class's own methods only
PtrOrNull(cls, idx) == IF idx > 0 THEN MethodPtr(cls, idx) ELSE NoMethod

GetMethodOwnOnly(cls, name) == PtrOrNull(cls, MethodsByName(cls, name))

\* Class::GetMethod of src/unnamed/part_000
RECURSIVE GetMethod(_, _)
GetMethod(cls, name) ==
    IF MethodsByName(cls, name) > 0 \/ Parent(cls) = NoClass
    THEN GetMethodOwnOnly(cls, name)
    ELSE GetMethod(Parent(cls), name)

-----------------------------------------------------------------------------
(* The evaluator.  An evaluation state st holds the closure the program    *)
(* runs in (globals), the instances (heap), the locals of the Call frames  *)
(* in progress (frames), the holders that Execute frames in progress keep  *)
(* in local variables (temps), Context's self-name, every method's         *)
(* formal_params and the Call records of the statement (calls).  A closure *)
(* reference names the closure an Execute got: the globals, the locals of  *)
(* a frame or the fields of an instance.  An Execute yields a state, a     *)
(* holder and how it ended: "ok", "return" (ReturnException), "error" (any *)
(* other exception), "ub" (undefined behaviour: a destroyed or null object *)
(* was used) or "oom" (no room for one more instance).                     *)

GlobalsRef == [kind |-> "globals", i |-> 0]

FrameRef(i) == [kind |-> "frame", i |-> i]

FieldsRef(id) == [kind |-> "fields", i |-> id]

ClosureAt(st, cl) ==
    CASE cl.kind = "globals" -> st.globals
      [] cl.kind = "frame" -> st.frames[cl.i]
      [] cl.kind = "fields" -> st.heap[cl.i].fields

\* closure[name] = h
Bind(st, cl, name, h) ==
    CASE cl.kind = "globals" -> [st EXCEPT !.globals[name] = h]
      [] cl.kind = "frame" -> [st EXCEPT !.frames[cl.i][name] = h]
      [] cl.kind = "fields" -> [st EXCEPT !.heap[cl.i].fields[name] = h]

\* the closure referred to still exists
Valid(st, cl) == cl.kind = "fields" => st.heap[cl.i].alive

Result(st, val, sig) == [st |-> st, val |-> val, sig |-> sig]

\* the holders outside instances: in the globals, in the locals of the frames, in
\* Execute's local variables and in formal_params
Roots(st) ==
    Held(st.globals)
    \cup UNION {Held(st.frames[i]) : i \in 1..Len(st.frames)}
    \cup {st.temps[i] : i \in 1..Len(st.temps)}
    \cup UNION {UNION {{st.formal_params[c][i][k].holder :
                           k \in 1..Len(st.formal_params[c][i])} :
                       i \in 1..Len(st.formal_params[c])} : c \in ClassNames}

\* std::shared_ptr: an instance is destroyed when the last holder that shares in owning
\* it goes; its fields go with it.
RECURSIVE Sweep(_, _, _)
Sweep(objects, owned, alive) ==
    LET keep == {i \in alive :
                    \/ i \in owned
                    \/ \E j \in alive : i \in Owned(Held(objects[j].fields))}
    IN  IF keep = alive THEN alive ELSE Sweep(objects, owned, keep)

\* the state once the holders that have gone have let go of their instances; extra are
\* holders in flight (an Execute's result)
Collect(st, extra) ==
    LET alive == Sweep(st.heap, Owned(Roots(st) \cup extra),
                       {i \in 1..Len(st.heap) : st.heap[i].alive})
    IN  [st EXCEPT !.heap = [i \in 1..Len(st.heap) |->
                                IF i \in alive
                                THEN st.heap[i]
                                ELSE [st.heap[i] EXCEPT !.alive = FALSE,
                                                        !.fields = EmptyClosure]]]

Push(st, h) == [st EXCEPT !.temps = Append(@, h)]

PopTo(st, n) == [st EXCEPT !.temps = SubSeq(@, 1, n)]

\* the object a holder refers to has been destroyed
Dangling(st, h) == h.k = "Instance" /\ ~st.heap[h.id].alive

\* Class::GetMethod of the build at hand
ClassGetMethod(cls, name) ==
    IF build = "part_000" THEN GetMethod(cls, name) ELSE GetMethodOwnOnly(cls, name)

\* p_method->formal_params
ParamsAt(st, p_method) == st.formal_params[p_method.cls][p_method.idx]

\* ClassInstance::HasMethod
Takes(st, p_method, argument_count) ==
    /\ p_method # NoMethod
    /\ Len(st.formal_params[p_method.cls][p_method.idx]) = argument_count

HasMethod(st, id, method, argument_count) ==
    Takes(st, ClassGetMethod(st.heap[id].cls, method), argument_count)

\* VariableValue::Execute: the loop over dotted_ids from the i-th on
RECURSIVE Resolve(_, _, _, _, _)
Resolve(st, p_closure, dotted_ids, i, result) ==
    IF i > Len(dotted_ids)
    THEN Result(st, result, "ok")
    ELSE LET h == ClosureAt(st, p_closure)[dotted_ids[i]]
         IN  IF h = Absent
             THEN Result(st, None, "error")
             ELSE IF Dangling(st, h)
             THEN Result(st, None, "ub")
             ELSE Resolve(st,
                          IF h.k = "Instance" THEN FieldsRef(h.id) ELSE p_closure,
                          dotted_ids, i + 1, h)

VariableValueExecute(node, cl, st) == Resolve(st, cl, node.ids, 1, None)

\* FieldAssignment::Execute: the loop over the object's dotted ids from the i-th on;
\* yields the closure to assign in
RECURSIVE Walk(_, _, _, _)
Walk(st, p_closure, dotted_ids, i) ==
    IF i > Len(dotted_ids)
    THEN [sig |-> "ok", p_closure |-> p_closure]
    ELSE LET val == ClosureAt(st, p_closure)[dotted_ids[i]]
         IN  IF val = Absent
             THEN [sig |-> "error", p_closure |-> p_closure]
             ELSE IF val.k # "Instance" \/ Dangling(st, val)
             THEN [sig |-> "ub", p_closure |-> p_closure]
             ELSE Walk(st, FieldsRef(val.id), dotted_ids, i + 1)

\* the frame of the Call in progress: locals["self"], then the parameters in order
RECURSIVE BindParams(_, _, _, _)
BindParams(locals, formal_params, actual_args, i) ==
    IF i > Len(formal_params)
    THEN locals
    ELSE BindParams([locals EXCEPT ![formal_params[i].name] = actual_args[i]],
                    formal_params, actual_args, i + 1)

CallRecord(p_method, id, actual_args, fresh, closure) ==
    [method |-> p_method, self |-> id, args |-> actual_args, fresh |-> fresh,
     closure |-> closure]

RECURSIVE Exec(_, _, _)

\* the loop "for (stmt : args_) actual_args.push_back(stmt->Execute(closure, context))"
RECURSIVE ExecArgs(_, _, _, _)
ExecArgs(args, cl, st, actual_args) ==
    IF Len(actual_args) = Len(args)
    THEN [st |-> st, vals |-> actual_args, sig |-> "ok"]
    ELSE LET r == Exec(args[Len(actual_args) + 1], cl, st)
         IN  IF r.sig # "ok"
             THEN [st |-> r.st, vals |-> actual_args, sig |-> r.sig]
             ELSE ExecArgs(args, cl, Push(r.st, r.val), Append(actual_args, r.val))

\* closure[name] = the value an Execute gave: the holder that was there lets go
Stored(p_closure, st1, val) ==
    IF ~Valid(st1, p_closure) THEN Result(st1, None, "ub") ELSE Result(st1, val, "ok")

Store(p_closure, name, r) ==
    IF r.sig # "ok"
    THEN r
    ELSE IF ~Valid(r.st, p_closure)
    THEN Result(r.st, None, "ub")
    ELSE Stored(p_closure, Collect(Bind(r.st, p_closure, name, r.val), {r.val}), r.val)

\* Assignment::Execute
AssignmentExecute(node, cl, st) ==
    Store(cl, node.s, Exec(node.kids[1], cl, [st EXCEPT !.self_name = node.s]))

\* FieldAssignment::Execute, once the loop has found the object's closure
FieldStore(node, cl, st, w) ==
    IF w.sig # "ok"
    THEN Result(st, None, w.sig)
    ELSE Store(w.p_closure, node.s, Exec(node.kids[1], cl, st))

\* FieldAssignment::Execute
FieldAssignmentExecute(node, cl, st) == FieldStore(node, cl, st, Walk(st, cl, node.ids, 1))

\* ClassInstance::Call of src/unnamed/part_000: locals goes when the body has returned
CallReturn(r) ==
    IF r.sig # "ok"
    THEN r
    ELSE Result(Collect([r.st EXCEPT !.frames = SubSeq(@, 1, Len(@) - 1)], {r.val}),
                r.val, "ok")

\* ClassInstance::Call of src/unnamed/part_000: the body runs in locals
CallBody(st, id, p_method, actual_args, locals) ==
    CallReturn(Exec(Methods(p_method.cls)[p_method.idx].body,
                    FrameRef(Len(st.frames) + 1),
                    [st EXCEPT
                        !.frames = Append(@, locals),
                        !.calls = Append(@, CallRecord(p_method, id, actual_args,
                                                       TRUE, locals))]))

\* ClassInstance::Call of src/unnamed/part_000: locals is filled
CallMethod(st, id, p_method, actual_args) ==
    CallBody(st, id, p_method, actual_args,
             BindParams([EmptyClosure EXCEPT !["self"] = Share(id)],
                        st.formal_params[p_method.cls][p_method.idx], actual_args, 1))

\* ClassInstance::Call that looks the method up by its name alone: formal_params.at(i)
\* pairs with actual_args.at(i), which throws when there are too few arguments
CallByName(st, id, method, actual_args) ==
    IF \/ ClassGetMethod(st.heap[id].cls, method) = NoMethod
       \/ Len(actual_args) < Len(ParamsAt(st, ClassGetMethod(st.heap[id].cls, method)))
    THEN Result(st, None, "error")
    ELSE CallMethod(st, id, ClassGetMethod(st.heap[id].cls, method), actual_args)

\* ClassInstance::Call of src/unnamed/part_000
Call(st, id, method, actual_args) ==
    IF ~HasMethod(st, id, method, Len(actual_args))
    THEN Result(st, None, "error")
    ELSE CallMethod(st, id, ClassGetMethod(st.heap[id].cls, method), actual_args)

\* ClassInstance::Call of src/runtime.cpp: formal_params is assigned, the body runs in
\* closure_
CallBodyInFields(st, id, p_method, actual_args) ==
    Exec(Methods(p_method.cls)[p_method.idx].body, FieldsRef(id),
         Collect([st EXCEPT
                     !.formal_params[p_method.cls][p_method.idx] =
                         [k \in 1..Len(actual_args) |-> Overwritten(actual_args[k])],
                     !.calls = Append(@, CallRecord(p_method, id, actual_args,
                                                    FALSE, st.heap[id].fields))], {}))

\* ClassInstance::Call of src/runtime.cpp
CallInFields(st, id, method, actual_args) ==
    IF ~HasMethod(st, id, method, Len(actual_args))
    THEN Result(st, None, "error")
    ELSE CallBodyInFields(st, id, ClassGetMethod(st.heap[id].cls, method), actual_args)

\* ClassInstance::Call of the build at hand
ClassInstanceCall(st, id, method, actual_args) ==
    IF build = "part_000"
    THEN Call(st, id, method, actual_args)
    ELSE CallInFields(st, id, method, actual_args)

\* MethodCall::Execute: Call has returned; holder and actual_args go
MethodCallReturn(r, base) ==
    IF r.sig # "ok"
    THEN r
    ELSE Result(Collect(PopTo(r.st, base), {r.val}), r.val, "ok")

\* MethodCall::Execute: the arguments have been executed
MethodCallArgs(node, a, holder, base) ==
    IF a.sig # "ok"
    THEN Result(a.st, None, a.sig)
    ELSE IF Dangling(a.st, holder)
    THEN Result(a.st, None, "ub")
    ELSE MethodCallReturn(ClassInstanceCall(a.st, holder.id, node.s, a.vals), base)

\* MethodCall::Execute: holder is object_->Execute's value
MethodCallHolder(node, cl, st1, holder, base, args) ==
    IF Dangling(st1, holder)
    THEN Result(st1, None, "ub")
    ELSE IF holder.k = "Instance" /\ HasMethod(st1, holder.id, node.s, Len(args))
    THEN MethodCallArgs(node, ExecArgs(args, cl, st1, <<>>), holder, base)
    ELSE Result(Collect(PopTo(st1, base), {}), None, "ok")

\* MethodCall::Execute: object_->Execute has returned
MethodCallOn(node, cl, r0, args) ==
    IF r0.sig # "ok"
    THEN r0
    ELSE MethodCallHolder(node, cl, Push(r0.st, r0.val), r0.val, Len(r0.st.temps), args)

\* MethodCall::Execute
MethodCallExecute(node, cl, st) ==
    MethodCallOn(node, cl, Exec(node.kids[1], cl, st), SubSeq(node.kids, 2, Len(node.kids)))

\* NewInstance::Execute: return closure.at(self_name)
NewInstanceResult(cl, st2, self_name) ==
    IF ~Valid(st2, cl)
    THEN Result(st2, None, "ub")
    ELSE Result(st2, ClosureAt(st2, cl)[self_name], "ok")

\* NewInstance::Execute: __init__ has returned; actual_args goes
NewInstanceInitReturn(cl, r, self_name, base) ==
    IF r.sig # "ok"
    THEN r
    ELSE NewInstanceResult(cl, Collect(PopTo(r.st, base), {}), self_name)

\* NewInstance::Execute: the arguments have been executed
NewInstanceArgs(cl, a, id, self_name, base) ==
    IF a.sig # "ok"
    THEN Result(a.st, None, a.sig)
    ELSE IF ~a.st.heap[id].alive
    THEN Result(a.st, None, "ub")
    ELSE NewInstanceInitReturn(cl, ClassInstanceCall(a.st, id, INIT_METHOD, a.vals),
                               self_name, base)

\* NewInstance::Execute: the new instance is in closure[self_name]
NewInstanceInit(node, cl, st1, id, self_name) ==
    IF HasMethod(st1, id, INIT_METHOD, Len(node.kids))
    THEN NewInstanceArgs(cl, ExecArgs(node.kids, cl, st1, <<>>), id, self_name,
                         Len(st1.temps))
    ELSE NewInstanceResult(cl, st1, self_name)

\* NewInstance::Execute
NewInstanceExecute(node, cl, st) ==
    IF Len(st.heap) >= MaxObjects
    THEN Result(st, None, "oom")
    ELSE IF ~Valid(st, cl)
    THEN Result(st, None, "ub")
    ELSE NewInstanceInit(node, cl,
                         Collect(Bind([st EXCEPT !.heap = Append(@,
                                          [cls |-> node.s, fields |-> EmptyClosure,
                                           alive |-> TRUE])],
                                      cl, st.self_name, Own(Len(st.heap) + 1)), {}),
                         Len(st.heap) + 1, st.self_name)

\* what an Execute returns when its local holders have gone
Yield(r, base) ==
    IF r.sig # "ok"
    THEN r
    ELSE Result(Collect(PopTo(r.st, base), {r.val}), r.val, "ok")

\* runtime::IsTrue of src/unnamed/part_000
IsTrue(object) ==
    CASE object.k = "None" -> FALSE
      [] object.k = "Bool" -> object.b
      [] object.k = "Number" -> object.n # 0
      [] object.k = "String" -> object.s # ""
      [] object.k = "Class" -> FALSE
      [] object.k = "Instance" -> FALSE

\* runtime::IsTrue of src/runtime.cpp
IsTrueOrObject(object) ==
    CASE object.k = "None" -> FALSE
      [] object.k = "Bool" -> object.b
      [] object.k = "Number" -> object.n # 0
      [] object.k = "String" -> object.s # ""
      [] OTHER -> TRUE

\* runtime::IsTrue of the build at hand
RuntimeIsTrue(object) ==
    IF build = "part_000" THEN IsTrue(object) ELSE IsTrueOrObject(object)

\* the strings of the modelled programs in the order of std::string's operator<
StringOrder == <<"", "a", "ab", "b">>

StringRank(str) == CHOOSE i \in 1..Len(StringOrder) : StringOrder[i] = str

\* lhs.TryAs<T>() && rhs.TryAs<T>()
BothAs(lhs, rhs, k) == lhs.k = k /\ rhs.k = k

\* Call(...).TryAs<Bool>()->GetValue()
AsBoolValue(r) ==
    IF r.sig # "ok"
    THEN r
    ELSE IF r.val.k # "Bool"
    THEN Result(r.st, None, "ub")
    ELSE Result(Collect(r.st, {}), Bool(r.val.b), "ok")

\* runtime::Equal of src/unnamed/part_000
Equal(st, lhs, rhs) ==
    IF BothAs(lhs, rhs, "Bool")
    THEN Result(st, Bool(lhs.b = rhs.b), "ok")
    ELSE IF BothAs(lhs, rhs, "Number")
    THEN Result(st, Bool(lhs.n = rhs.n), "ok")
    ELSE IF BothAs(lhs, rhs, "String")
    THEN Result(st, Bool(lhs.s = rhs.s), "ok")
    ELSE IF Dangling(st, lhs) \/ Dangling(st, rhs)
    THEN Result(st, None, "ub")
    ELSE IF lhs.k = "Instance" /\ HasMethod(st, lhs.id, EQ_METHOD, 1)
    THEN AsBoolValue(Call(st, lhs.id, EQ_METHOD, <<rhs>>))
    ELSE IF lhs.k = "None" /\ rhs.k = "None"
    THEN Result(st, Bool(TRUE), "ok")
    ELSE Result(st, None, "error")

\* runtime::Equal of src/runtime.cpp
EqualNoCall(st, lhs, rhs) ==
    IF BothAs(lhs, rhs, "Bool")
    THEN Result(st, Bool(lhs.b = rhs.b), "ok")
    ELSE IF BothAs(lhs, rhs, "Number")
    THEN Result(st, Bool(lhs.n = rhs.n), "ok")
    ELSE IF BothAs(lhs, rhs, "String")
    THEN Result(st, Bool(lhs.s = rhs.s), "ok")
    ELSE IF lhs.k # "Instance" \/ Dangling(st, lhs)
    THEN Result(st, None, "ub")
    ELSE Result(st, None, "error")

\* runtime::Less of src/unnamed/part_000
Less(st, lhs, rhs) ==
    IF BothAs(lhs, rhs, "Bool")
    THEN Result(st, Bool(~lhs.b /\ rhs.b), "ok")
    ELSE IF BothAs(lhs, rhs, "Number")
    THEN Result(st, Bool(lhs.n < rhs.n), "ok")
    ELSE IF BothAs(lhs, rhs, "String")
    THEN Result(st, Bool(StringRank(lhs.s) < StringRank(rhs.s)), "ok")
    ELSE IF Dangling(st, lhs) \/ Dangling(st, rhs)
    THEN Result(st, None, "ub")
    ELSE IF lhs.k = "Instance" /\ HasMethod(st, lhs.id, LT_METHOD, 1)
    THEN AsBoolValue(Call(st, lhs.id, LT_METHOD, <<rhs>>))
    ELSE Result(st, None, "error")

\* !f(lhs, rhs, context)
Negated(r) == IF r.sig # "ok" THEN r ELSE Result(r.st, Bool(~r.val.b), "ok")

\* runtime::NotEqual of src/unnamed/part_000
NotEqual(st, lhs, rhs) == Negated(Equal(st, lhs, rhs))

\* Less(...) || Equal(...): Equal is called only when Less is false
OrEqual(less, lhs, rhs) ==
    IF less.sig # "ok" \/ less.val.b THEN less ELSE Equal(less.st, lhs, rhs)

\* runtime::Greater of src/unnamed/part_000
Greater(st, lhs, rhs) == Negated(OrEqual(Less(st, lhs, rhs), lhs, rhs))

\* runtime::LessOrEqual of src/unnamed/part_000
LessOrEqual(st, lhs, rhs) == Negated(Greater(st, lhs, rhs))

\* runtime::GreaterOrEqual of src/unnamed/part_000
GreaterOrEqual(st, lhs, rhs) == Negated(Less(st, lhs, rhs))

\* runtime::Less, NotEqual, Greater, LessOrEqual, GreaterOrEqual of src/runtime.cpp
NotImplemented(st, lhs, rhs) == Result(st, None, "error")

Comparators == {"Equal", "NotEqual", "Less", "Greater", "LessOrEqual", "GreaterOrEqual"}

\* cmp_(lhs_holder, rhs_holder, context) in src/unnamed/part_000
Compare(cmp, st, lhs, rhs) ==
    CASE cmp = "Equal" -> Equal(st, lhs, rhs)
      [] cmp = "NotEqual" -> NotEqual(st, lhs, rhs)
      [] cmp = "Less" -> Less(st, lhs, rhs)
      [] cmp = "Greater" -> Greater(st, lhs, rhs)
      [] cmp = "LessOrEqual" -> LessOrEqual(st, lhs, rhs)
      [] cmp = "GreaterOrEqual" -> GreaterOrEqual(st, lhs, rhs)

\* cmp_(lhs_holder, rhs_holder, context) in src/runtime.cpp
CompareNoCall(cmp, st, lhs, rhs) ==
    IF cmp = "Equal" THEN EqualNoCall(st, lhs, rhs) ELSE NotImplemented(st, lhs, rhs)

\* cmp_(lhs_holder, rhs_holder, context) of the build at hand
RuntimeCompare(cmp, st, lhs, rhs) ==
    IF build = "part_000"
    THEN Compare(cmp, st, lhs, rhs)
    ELSE CompareNoCall(cmp, st, lhs, rhs)

\* Comparison::Execute: both operands have been executed
ComparisonOf(node, base, a) ==
    IF a.sig # "ok"
    THEN Result(a.st, None, a.sig)
    ELSE Yield(RuntimeCompare(node.s, a.st, a.vals[1], a.vals[2]), base)

\* Comparison::Execute
ComparisonExecute(node, cl, st) ==
    ComparisonOf(node, Len(st.temps), ExecArgs(node.kids, cl, st, <<>>))

\* if (lhs_holder && rhs_holder): neither holder is empty
BothHold(a) == a.vals[1].k # "None" /\ a.vals[2].k # "None"

\* a holder among the operands refers to a destroyed object
AnyDangling(a) == \E i \in 1..Len(a.vals) : Dangling(a.st, a.vals[i])

\* Add::Execute: both operands have been executed
AddOf(base, a) ==
    IF a.sig # "ok"
    THEN Result(a.st, None, a.sig)
    ELSE IF ~BothHold(a)
    THEN Result(a.st, None, "error")
    ELSE IF AnyDangling(a)
    THEN Result(a.st, None, "ub")
    ELSE IF BothAs(a.vals[1], a.vals[2], "Number")
    THEN Yield(Result(a.st, Number(a.vals[1].n + a.vals[2].n), "ok"), base)
    ELSE IF BothAs(a.vals[1], a.vals[2], "String")
    THEN Yield(Result(a.st, String(a.vals[1].s \o a.vals[2].s), "ok"), base)
    ELSE IF a.vals[1].k = "Instance" /\ HasMethod(a.st, a.vals[1].id, ADD_METHOD, 1)
    THEN Yield(ClassInstanceCall(a.st, a.vals[1].id, ADD_METHOD, <<a.vals[2]>>), base)
    ELSE Result(a.st, None, "error")

\* Add::Execute
AddExecute(node, cl, st) == AddOf(Len(st.temps), ExecArgs(node.kids, cl, st, <<>>))

\* the operands of Div are two Numbers
TwoNumbers(a) ==
    IF a.sig # "ok"
    THEN a.sig
    ELSE IF ~BothHold(a)
    THEN "error"
    ELSE IF AnyDangling(a)
    THEN "ub"
    ELSE IF BothAs(a.vals[1], a.vals[2], "Number")
    THEN "ok"
    ELSE "error"

\* the magnitude of an int
Abs(n) == IF n < 0 THEN -n ELSE n

\* the built-in operator / of two ints with a nonzero divisor: the quotient with the
\* fractional part dropped
Quotient(n, d) ==
    IF (n < 0) = (d < 0) THEN Abs(n) \div Abs(d) ELSE -(Abs(n) \div Abs(d))

\* Div::Execute: both operands have been executed; the built-in operator / with a zero
\* divisor is undefined
DivOf(base, a) ==
    IF TwoNumbers(a) # "ok"
    THEN Result(a.st, None, TwoNumbers(a))
    ELSE IF a.vals[2].n = 0
    THEN Result(a.st, None, "ub")
    ELSE Yield(Result(a.st, Number(Quotient(a.vals[1].n, a.vals[2].n)), "ok"), base)

\* Div::Execute
DivExecute(node, cl, st) == DivOf(Len(st.temps), ExecArgs(node.kids, cl, st, <<>>))

\* the operands of Or, And and Not are holders that are not empty
AllHold(a) ==
    IF a.sig # "ok"
    THEN a.sig
    ELSE IF \E i \in 1..Len(a.vals) : a.vals[i].k = "None"
    THEN "error"
    ELSE IF AnyDangling(a)
    THEN "ub"
    ELSE "ok"

\* Or::Execute: both operands have been executed
OrOf(base, a) ==
    IF AllHold(a) # "ok"
    THEN Result(a.st, None, AllHold(a))
    ELSE Yield(Result(a.st, Bool(RuntimeIsTrue(a.vals[1]) \/ RuntimeIsTrue(a.vals[2])),
                      "ok"), base)

\* Or::Execute
OrExecute(node, cl, st) == OrOf(Len(st.temps), ExecArgs(node.kids, cl, st, <<>>))

\* And::Execute: both operands have been executed
AndOf(base, a) ==
    IF AllHold(a) # "ok"
    THEN Result(a.st, None, AllHold(a))
    ELSE Yield(Result(a.st, Bool(RuntimeIsTrue(a.vals[1]) /\ RuntimeIsTrue(a.vals[2])),
                      "ok"), base)

\* And::Execute
AndExecute(node, cl, st) == AndOf(Len(st.temps), ExecArgs(node.kids, cl, st, <<>>))

\* Not::Execute: the argument has been executed
NotOf(base, a) ==
    IF AllHold(a) # "ok"
    THEN Result(a.st, None, AllHold(a))
    ELSE Yield(Result(a.st, Bool(~RuntimeIsTrue(a.vals[1])), "ok"), base)

\* Not::Execute
NotExecute(node, cl, st) == NotOf(Len(st.temps), ExecArgs(node.kids, cl, st, <<>>))

\* IfElse::Execute: the condition has been executed; cond_holder stays until the branch
\* has returned
IfElseOn(node, cl, c) ==
    IF c.sig # "ok"
    THEN c
    ELSE IF Dangling(c.st, c.val)
    THEN Result(c.st, None, "ub")
    ELSE IF RuntimeIsTrue(c.val)
    THEN Yield(Exec(node.kids[2], cl, Push(c.st, c.val)), Len(c.st.temps))
    ELSE IF Len(node.kids) = 3
    THEN Yield(Exec(node.kids[3], cl, Push(c.st, c.val)), Len(c.st.temps))
    ELSE Result(Collect(c.st, {}), None, "ok")

\* IfElse::Execute
IfElseExecute(node, cl, st) == IfElseOn(node, cl, Exec(node.kids[1], cl, st))

\* os << text, for os the Context's output stream (to = 0) or the std::stringstream of
\* the to-th Stringify in progress
Write(st, to, text) ==
    IF to = 0
    THEN [st EXCEPT !.output = @ \o text]
    ELSE [st EXCEPT !.ss[to] = @ \o text]

Digits == <<"0", "1", "2", "3", "4", "5", "6", "7", "8", "9">>

\* os << n for an int n
RECURSIVE Decimal(_)
Decimal(n) ==
    IF n < 0
    THEN "-" \o Decimal(-n)
    ELSE IF n < 10
    THEN Digits[n + 1]
    ELSE Decimal(n \div 10) \o Digits[(n % 10) + 1]

\* os << this: the address of the instance heap[id]
Address(id) == "0x" \o Decimal(id)

\* a Print has returned: the holder it printed goes
Printed(p, base) ==
    IF p.sig # "ok" THEN p ELSE Result(Collect(PopTo(p.st, base), {}), None, "ok")

RECURSIVE ObjectPrint(_, _, _)

\* ClassInstance::Print of src/unnamed/part_000: Call(...)->Print(os, context)
PrintCalled(r, to, base) ==
    IF r.sig # "ok"
    THEN r
    ELSE IF r.val.k = "None" \/ Dangling(r.st, r.val)
    THEN Result(r.st, None, "ub")
    ELSE Printed(ObjectPrint(Push(r.st, r.val), r.val, to), base)

\* ClassInstance::Print of src/unnamed/part_000
ClassInstancePrint(st, id, to) ==
    IF HasMethod(st, id, STR_METHOD, 0)
    THEN PrintCalled(Call(st, id, STR_METHOD, <<>>), to, Len(st.temps))
    ELSE Result(Write(st, to, Address(id)), None, "ok")

\* ClassInstance::Print of src/runtime.cpp: what __str__ returns is dropped
ClassInstancePrintNothing(st, id, to) ==
    IF HasMethod(st, id, STR_METHOD, 0)
    THEN Printed(CallInFields(st, id, STR_METHOD, <<>>), Len(st.temps))
    ELSE Result(Write(st, to, Address(id)), None, "ok")

\* Object::Print of the object the holder refers to
ObjectPrint(st, h, to) ==
    CASE h.k = "Number" -> Result(Write(st, to, Decimal(h.n)), None, "ok")
      [] h.k = "String" -> Result(Write(st, to, h.s), None, "ok")
      [] h.k = "Bool" -> Result(Write(st, to, IF h.b THEN "True" ELSE "False"), None, "ok")
      [] h.k = "Class" -> Result(Write(st, to, "Class " \o h.s), None, "ok")
      [] h.k = "Instance" ->
            IF build = "part_000"
            THEN ClassInstancePrint(st, h.id, to)
            ELSE ClassInstancePrintNothing(st, h.id, to)

\* if (holder) holder->Print(os, context); else os << "None"
HolderPrint(st, h, to) ==
    IF h.k = "None"
    THEN Result(Write(st, to, "None"), None, "ok")
    ELSE IF Dangling(st, h)
    THEN Result(st, None, "ub")
    ELSE ObjectPrint(st, h, to)

RECURSIVE PrintLoop(_, _, _, _)

\* Print::Execute: the i-th argument has been printed; its holder goes
PrintNext(args, i, cl, base, p) ==
    IF p.sig # "ok"
    THEN p
    ELSE PrintLoop(args, i + 1, cl, Collect(PopTo(p.st, base), {}))

\* Print::Execute: the i-th argument has been executed
PrintArg(args, i, cl, r) ==
    IF r.sig # "ok"
    THEN r
    ELSE PrintNext(args, i, cl, Len(r.st.temps),
                   HolderPrint(Write(Push(r.st, r.val), 0, IF i > 1 THEN " " ELSE ""),
                               r.val, 0))

\* Print::Execute: the loop over args_ from the i-th argument on, then the newline
PrintLoop(args, i, cl, st) ==
    IF i > Len(args)
    THEN Result(Write(st, 0, "\n"), None, "ok")
    ELSE PrintArg(args, i, cl, Exec(args[i], cl, st))

\* Print::Execute
PrintExecute(node, cl, st) == PrintLoop(node.kids, 1, cl, st)

\* Stringify::Execute: holder->Print(ss, context) has returned; ss.str() is the value
Stringified(p, base) ==
    IF p.sig # "ok"
    THEN p
    ELSE Yield(Result([p.st EXCEPT !.ss = SubSeq(@, 1, Len(@) - 1)],
                      String(p.st.ss[Len(p.st.ss)]), "ok"), base)

\* Stringify::Execute: the argument has been executed
StringifyOf(r) ==
    IF r.sig # "ok"
    THEN r
    ELSE Stringified(HolderPrint([Push(r.st, r.val) EXCEPT !.ss = Append(@, "")], r.val,
                                 Len(r.st.ss) + 1),
                     Len(r.st.temps))

\* Stringify::Execute
StringifyExecute(node, cl, st) == StringifyOf(Exec(node.kids[1], cl, st))

\* a Return that yields its value and throws nothing
ReturnExecuteNoThrow(node, cl, st) == Exec(node.kids[1], cl, st)

\* Return::Execute
ReturnExecute(node, cl, st) ==
    LET r == Exec(node.kids[1], cl, st)
    IN  IF r.sig # "ok" THEN r ELSE Result(r.st, r.val, "return")

\* MethodBody::Execute
MethodBodyExecute(node, cl, st) ==
    LET r == Exec(node.kids[1], cl, st)
    IN  IF r.sig = "return" THEN Result(r.st, r.val, "ok") ELSE r

\* Compound::Execute: the loop over args_ from the i-th statement on
RECURSIVE CompoundLoop(_, _, _, _)
CompoundLoop(args, i, cl, st) ==
    IF i > Len(args)
    THEN Result(st, None, "ok")
    ELSE LET r == Exec(args[i], cl, st)
         IN  IF r.sig # "ok"
             THEN r
             ELSE CompoundLoop(args, i + 1, cl, Collect(r.st, {}))

CompoundExecute(node, cl, st) == CompoundLoop(node.kids, 1, cl, st)

\* Statement::Execute: the virtual call
Exec(node, cl, st) ==
    CASE node.op = "VariableValue" -> VariableValueExecute(node, cl, st)
      [] node.op = "Assignment" -> AssignmentExecute(node, cl, st)
      [] node.op = "FieldAssignment" -> FieldAssignmentExecute(node, cl, st)
      [] node.op = "MethodCall" -> MethodCallExecute(node, cl, st)
      [] node.op = "NewInstance" -> NewInstanceExecute(node, cl, st)
      [] node.op = "Return" -> ReturnExecute(node, cl, st)
      [] node.op = "MethodBody" -> MethodBodyExecute(node, cl, st)
      [] node.op = "Compound" -> CompoundExecute(node, cl, st)
      [] node.op = "IfElse" -> IfElseExecute(node, cl, st)
      [] node.op = "Print" -> PrintExecute(node, cl, st)
      [] node.op = "Stringify" -> StringifyExecute(node, cl, st)
      [] node.op = "Add" -> AddExecute(node, cl, st)
      [] node.op = "Div" -> DivExecute(node, cl, st)
      [] node.op = "Or" -> OrExecute(node, cl, st)
      [] node.op = "And" -> AndExecute(node, cl, st)
      [] node.op = "Not" -> NotExecute(node, cl, st)
      [] node.op = "Comparison" -> ComparisonExecute(node, cl, st)

-----------------------------------------------------------------------------
(* The states of the lexer and of the evaluator while the other one runs.   *)

Builds == {"part_000", "runtime.cpp"}

\* the closure the embedder passes in
InitialGlobals == [EmptyClosure EXCEPT !["one"] = Number(1), !["two"] = Number(2)]

RuntimeIdle ==
    /\ build = "part_000"
    /\ globals = InitialGlobals
    /\ heap = <<>>
    /\ self_name_ = ""
    /\ method_params = DeclaredParams
    /\ calls = <<>>
    /\ status = "ok"
    /\ returned = None
    /\ last_statement = NoStatement
    /\ steps = 0
    /\ output_ = ""

LexerIdle ==
    /\ in_ = Stream(<<>>)
    /\ tokens_ = <<>>
    /\ curr_pos_ = -1
    /\ current_indent_ = 0
    /\ lex_status = "ok"
    /\ ret = NoToken
    /\ constructed = FALSE
    /\ after_eof = FALSE

-----------------------------------------------------------------------------
(* The lexer's state machine.                                              *)

InitLexer ==
    /\ \E n \in 0..MaxLines : \E ls \in [1..n -> SourceLines] :
           \E newline_at_end \in BOOLEAN :
               in_ = Stream(Text(ls, newline_at_end))
    /\ tokens_ = <<>>
    /\ curr_pos_ = -1
    /\ current_indent_ = 0
    /\ lex_status = "ok"
    /\ ret = NoToken
    /\ constructed = FALSE
    /\ after_eof = FALSE
    /\ RuntimeIdle

DoNextToken ==
    LET r == NextTokenResult(in_, tokens_, curr_pos_, current_indent_)
    IN  /\ in_' = r.in
        /\ tokens_' = r.tokens_
        /\ curr_pos_' = r.curr_pos_
        /\ current_indent_' = r.current_indent_
        /\ ret' = r.ret
        /\ lex_status' = r.status
        /\ UNCHANGED rtvars

\* Lexer::Lexer(input): the constructor makes the first NextToken call.
Construct ==
    /\ ~constructed
    /\ constructed' = TRUE
    /\ DoNextToken
    /\ UNCHANGED after_eof

\* Lexer::NextToken called by the lexer's user; a lexer that has thrown is not used again.
NextToken ==
    /\ constructed
    /\ lex_status = "ok"
    /\ DoNextToken
    /\ after_eof' = (after_eof \/ tokens_[curr_pos_ + 1] = Eof)
    /\ UNCHANGED constructed

\* Lexer::CurrentToken
CurrentToken == tokens_[curr_pos_ + 1]

NextLexer == Construct \/ NextToken

SpecLexer == InitLexer /\ [][NextLexer]_vars

-----------------------------------------------------------------------------
(* The lexer over comparison characters and number literals: up to         *)
(* MaxPieces lines, each one piece of text.                                *)

MaxPieces == 2

Numeral(ds) == [i \in 1..Len(ds) |-> Decimals[ds[i] + 1]]

\* 2^31, 2^32 and 2^63 - 1
Beyond == <<2, 1, 4, 7, 4, 8, 3, 6, 4, 8>>
Wide == <<4, 2, 9, 4, 9, 6, 7, 2, 9, 6>>
Int64Max == <<9, 2, 2, 3, 3, 7, 2, 0, 3, 6, 8, 5, 4, 7, 7, 5, 8, 0, 7>>

LiteralDigits == {<<0>>, <<7>>, <<4, 2>>, <<0, 0, 7>>, IntMax, Beyond, Wide, Int64Max}

NumberPieces == {Numeral(ds) : ds \in LiteralDigits}

OperatorPieces ==
    { <<"!">>, <<"!", "=">>, <<"=", "=">>, <<"<", "=">>, <<">", "=">>,
      <<"!", " ", "=">>, <<"!", "x">>, <<"x", "!">>, <<"=">>, <<"<">>,
      <<"x", "<", "=", "7">> }

Pieces == NumberPieces \cup OperatorPieces

InitLiterals ==
    /\ \E n \in 1..MaxPieces : \E ls \in [1..n -> Pieces] :
           \E newline_at_end \in BOOLEAN :
               in_ = Stream(Text(ls, newline_at_end))
    /\ tokens_ = <<>>
    /\ curr_pos_ = -1
    /\ current_indent_ = 0
    /\ lex_status = "ok"
    /\ ret = NoToken
    /\ constructed = FALSE
    /\ after_eof = FALSE
    /\ RuntimeIdle

SpecLiterals == InitLiterals /\ [][NextLexer]_vars

-----------------------------------------------------------------------------
(* The evaluator's state machine: a program is run statement by statement  *)
(* in one closure and one Context, as an embedder calls Execute on each    *)
(* top-level statement.  A program that has thrown, or whose behaviour is  *)
(* undefined, executes no further statement.                               *)

InitRuntime ==
    /\ build \in Builds
    /\ globals = InitialGlobals
    /\ heap = <<>>
    /\ self_name_ = ""
    /\ method_params = DeclaredParams
    /\ calls = <<>>
    /\ status = "ok"
    /\ returned = None
    /\ last_statement = NoStatement
    /\ steps = 0
    /\ output_ = ""
    /\ LexerIdle

\* the evaluation state a top-level statement starts in
Start ==
    [globals |-> globals, heap |-> heap, frames |-> <<>>, temps |-> <<>>,
     self_name |-> self_name_, formal_params |-> method_params, calls |-> <<>>,
     output |-> output_, ss |-> <<>>]

\* statement->Execute(closure, context) has returned or thrown
Ran(statement, r, end) ==
    /\ status = "ok"
    /\ steps < MaxSteps
    /\ steps' = steps + 1
    /\ r.sig # "oom"
    /\ globals' = end.globals
    /\ heap' = end.heap
    /\ self_name_' = end.self_name
    /\ method_params' = end.formal_params
    /\ calls' = end.calls
    /\ output_' = end.output
    /\ status' = (IF r.sig = "ok" THEN "ok" ELSE IF r.sig = "ub" THEN "ub" ELSE "error")
    /\ returned' = (IF r.sig = "ok" THEN r.val ELSE None)
    /\ last_statement' = statement
    /\ UNCHANGED <<build, lexvars>>

\* what is left when the statement's frames and local holders have gone
Left(statement, r) ==
    Ran(statement, r, Collect([r.st EXCEPT !.frames = <<>>, !.temps = <<>>], {}))

\* statement->Execute(closure, context) by the embedder; the result is dropped
Run(statement) == Left(statement, Exec(statement, GlobalsRef, Start))

Variables == {"x", "y"}

One == VariableValue(<<"one">>)

Two == VariableValue(<<"two">>)

Reads ==
    {VariableValue(<<v>>) : v \in Variables}
    \cup {VariableValue(<<v, "f">>) : v \in Variables}

News == {NewInstance("A", <<>>), NewInstance("B", <<>>), NewInstance("A", <<One>>)}

MethodCalls ==
    {MethodCall(VariableValue(<<"x">>), m, <<>>) : m \in {"me", "get", "keep", "only"}}
    \cup {MethodCall(VariableValue(<<"x">>), "set", <<a>>) :
            a \in {Two, VariableValue(<<"y">>)}}
    \cup {MethodCall(VariableValue(<<"y">>), "get", <<>>)}

RValues == {One, Two} \cup Reads \cup News \cup MethodCalls

Assignments == {Assignment(var, rv) : var \in Variables, rv \in RValues}

FieldAssignments ==
    {FieldAssignment(<<v>>, "f", rv) :
        v \in Variables,
        rv \in {One, Two, VariableValue(<<"x">>), NewInstance("A", <<>>)}}
    \cup {FieldAssignment(<<"x", "f">>, "f", Two)}

RunAssignment == \E statement \in Assignments : Run(statement)

RunFieldAssignment == \E statement \in FieldAssignments : Run(statement)

RunMethodCall == \E statement \in MethodCalls : Run(statement)

RunNewInstance == \E statement \in News : Run(statement)

NextRuntime == RunAssignment \/ RunFieldAssignment \/ RunMethodCall \/ RunNewInstance

SpecRuntime == InitRuntime /\ [][NextRuntime]_vars

-----------------------------------------------------------------------------
(* Programs of expressions: the embedder binds x and y to values of every  *)
(* kind in the closure it passes in; the program assigns new instances to  *)
(* them and then executes one statement that reads them.                   *)

\* the values the embedder binds
InputNumbers == {0, 2, -7}

InputStrings == {"", "a"}

InputValues ==
    {None, ClassValue("A")}
    \cup {Number(n) : n \in InputNumbers}
    \cup {String(str) : str \in InputStrings}
    \cup {Bool(b) : b \in BOOLEAN}

InitExpressions ==
    /\ build \in Builds
    /\ \E vx \in InputValues, vy \in InputValues :
           globals = [InitialGlobals EXCEPT !["x"] = vx, !["y"] = vy]
    /\ heap = <<>>
    /\ self_name_ = ""
    /\ method_params = DeclaredParams
    /\ calls = <<>>
    /\ status = "ok"
    /\ returned = None
    /\ last_statement = NoStatement
    /\ steps = 0
    /\ output_ = ""
    /\ LexerIdle

X == VariableValue(<<"x">>)

Y == VariableValue(<<"y">>)

Setups ==
    {Assignment("x", NewInstance("D", <<>>)),
     Assignment("y", NewInstance("D", <<>>)),
     Assignment("x", NewInstance("A", <<>>))}

Comparisons == {Comparison(cmp, X, Y) : cmp \in Comparators}

Logicals == {And(X, Y), Or(X, Y), Not(X)}

Arithmetics ==
    {Add(X, Y), Div(X, Y),
     Compound(<<Div(X, Y), Assignment("y", One)>>),
     Add(NewInstance("D", <<>>), Y)}

Conditionals == {IfElse(X, One, Two), IfOnly(X, One)}

Prints == {PrintArgs(<<X, Y>>), PrintArgs(<<NewInstance("D", <<>>)>>), Stringify(X)}

DottedReads == {VariableValue(<<"x", "y">>), VariableValue(<<"x", "f">>)}

Early == MethodCall(X, "early", <<Y>>)

EarlyCalls ==
    {Early, Compound(<<Early, Assignment("y", One)>>),
     MethodCall(X, "early", <<NewInstance("D", <<>>)>>)}

\* the statement that ends the program
RunLast(statement) ==
    /\ last_statement.op \in {NoStatement.op, "Assignment"}
    /\ Run(statement)

RunSetup ==
    /\ last_statement.op \in {NoStatement.op, "Assignment"}
    /\ \E statement \in Setups : Run(statement)

RunComparison == \E statement \in Comparisons : RunLast(statement)

RunLogical == \E statement \in Logicals : RunLast(statement)

RunArithmetic == \E statement \in Arithmetics : RunLast(statement)

RunIfElse == \E statement \in Conditionals : RunLast(statement)

RunPrint == \E statement \in Prints : RunLast(statement)

\* a dotted name is read after the assignments or after a call of early, which has
\* set the field f of x
RunDottedRead ==
    /\ last_statement.op \in {NoStatement.op, "Assignment", "MethodCall"}
    /\ \E statement \in DottedReads : Run(statement)

RunEarly == \E statement \in EarlyCalls : RunLast(statement)

NextExpressions ==
    \/ RunSetup
    \/ RunComparison
    \/ RunLogical
    \/ RunArithmetic
    \/ RunIfElse
    \/ RunPrint
    \/ RunDottedRead
    \/ RunEarly

SpecExpressions == InitExpressions /\ [][NextExpressions]_vars

-----------------------------------------------------------------------------
(* Programs that call methods and print instances: x is given an instance   *)
(* of E, C, F or G; then methods are called on x through MethodCall         *)
(* statements, ClassInstance::Call is called on x's instance directly (as   *)
(* the embedder does), and x is printed.                                    *)

ReceiverValues == {None, Number(2)}

ArgumentValues == {None, Number(2), String("a"), Bool(TRUE), ClassValue("A")}

InitMethods ==
    /\ build \in Builds
    /\ \E vx \in ReceiverValues, vy \in ArgumentValues :
           globals = [InitialGlobals EXCEPT !["x"] = vx, !["y"] = vy]
    /\ heap = <<>>
    /\ self_name_ = ""
    /\ method_params = DeclaredParams
    /\ calls = <<>>
    /\ status = "ok"
    /\ returned = None
    /\ last_statement = NoStatement
    /\ steps = 0
    /\ output_ = ""
    /\ LexerIdle

Instantiations ==
    {Assignment("x", NewInstance("E", <<>>)),
     Assignment("x", NewInstance("C", <<>>)),
     Assignment("x", NewInstance("F", <<Y>>)),
     Assignment("x", NewInstance("G", <<Y>>)),
     Assignment("x", NewInstance("H", <<>>))}

SetFieldOfX == FieldAssignment(<<"x">>, "f", Y)

CalledMethods == {"set", "dup", "assign", "peek", "make", "me", "get", "none"}

MethodCallsOnX ==
    {MethodCall(X, method, args) : method \in CalledMethods, args \in {<<>>, <<Y>>}}
    \cup {MethodCall(X, "pick", <<Y, One>>), MethodCall(X, "pick", <<One, Y>>)}

\* instance->Call(method, actual_args, context) by the embedder, for the instance that
\* x holds and the values of the variables args
DirectCall(method, args) == Node("Call", method, args, <<>>)

DirectCalls ==
    {DirectCall(method, args) : method \in CalledMethods, args \in {<<>>, <<"y">>}}
    \cup {DirectCall("pick", <<"y", "one">>)}

PrintsOfX == {PrintArgs(<<X>>), PrintArgs(<<Y, X>>), Stringify(X)}

RunInstantiation ==
    /\ last_statement.op \in {NoStatement.op}
    /\ \E statement \in Instantiations : Run(statement)

RunSetFieldOfX ==
    /\ last_statement.op = "Assignment"
    /\ Run(SetFieldOfX)

RunMethodCallOnX == \E statement \in MethodCallsOnX : Run(statement)

ActualArgs(statement) == [i \in 1..Len(statement.ids) |-> globals[statement.ids[i]]]

RunCallOn(statement, holder) ==
    /\ holder.k = "Instance"
    /\ heap[holder.id].alive
    /\ Left(statement, ClassInstanceCall(Start, holder.id, statement.s,
                                          ActualArgs(statement)))

RunCall == \E statement \in DirectCalls : RunCallOn(statement, globals["x"])

RunPrintOfX == \E statement \in PrintsOfX : Run(statement)

NextMethods ==
    \/ RunInstantiation
    \/ RunSetFieldOfX
    \/ RunMethodCallOnX
    \/ RunCall
    \/ RunPrintOfX

SpecMethods == InitMethods /\ [][NextMethods]_vars

-----------------------------------------------------------------------------
(* The source text as lines, read off the characters directly (not through *)
(* ReadLine): where a line ends, its leading spaces, whether it holds a    *)
(* token.                                                                  *)

Chars == in_.chars

\* The position of the newline character that ends the line starting at i, or
\* Len(Chars) + 1 when the line ends at the end of the input.
RECURSIVE EndOfLine(_)
EndOfLine(i) ==
    IF i > Len(Chars) \/ Chars[i] = "\n" THEN i ELSE EndOfLine(i + 1)

RECURSIVE LeadingSpaces(_)
LeadingSpaces(i) ==
    IF i <= Len(Chars) /\ Chars[i] = " " THEN 1 + LeadingSpaces(i + 1) ELSE 0

\* The line starting at i holds a token: its first non-space character is neither
\* a newline, nor the start of a comment, nor the end of the input.
HasToken(i) ==
    LET j == i + LeadingSpaces(i)
    IN  j <= Len(Chars) /\ Chars[j] \notin {"\n", "#"}

\* The start of the first line at or after position i that holds a token; 0 if none.
RECURSIVE NextTokenLine(_)
NextTokenLine(i) ==
    IF i > Len(Chars) THEN 0
    ELSE IF HasToken(i) THEN i
    ELSE NextTokenLine(EndOfLine(i) + 1)

\* The number of lines holding a token among the lines that start before position i.
RECURSIVE TokenLinesBefore(_, _)
TokenLinesBefore(start, i) ==
    IF start >= i \/ start > Len(Chars) THEN 0
    ELSE (IF HasToken(start) THEN 1 ELSE 0) + TokenLinesBefore(EndOfLine(start) + 1, i)

Count(toks, tok) == Cardinality({i \in 1..Len(toks) : toks[i] = tok})

Structural == {"Indent", "Dedent", "Newline", "Eof"}

\* This call has to read the stream: every buffered token has been handed out and
\* the last of them is not Eof.
MustRead ==
    /\ lex_status = "ok"
    /\ curr_pos_ + 1 = Len(tokens_)
    /\ (tokens_ = <<>> \/ tokens_[Len(tokens_)] # Eof)

\* The lexer has handed out Eof.
AtEof == lex_status = "ok" /\ constructed /\ ret = Eof

-----------------------------------------------------------------------------
(* C1: for every input that lexes without error, with or without a newline *)
(* character at its end, the tokens up to and including Eof hold as many   *)
(* Indent as Dedent tokens.                                                *)

C1_IndentDedentBalance ==
    AtEof => Count(tokens_, Indent) = Count(tokens_, Dedent)

-----------------------------------------------------------------------------
(* C2: a line holding a token with 2k more leading spaces than the current *)
(* indentation gets exactly k Indent tokens right before its first token,  *)
(* one with 2k fewer gets exactly k Dedent tokens there, one with as many  *)
(* gets neither; afterwards the current indentation is the line's number   *)
(* of leading spaces.                                                      *)

C2_Step ==
    (MustRead /\ NextTokenLine(in_.pos) # 0 /\ lex_status' = "ok") =>
        LET n == LeadingSpaces(NextTokenLine(in_.pos))
            k == (n - current_indent_) \div 2
            old == Len(tokens_)
            added == SubSeq(tokens_', old + 1, Len(tokens_'))
        IN  /\ SubSeq(tokens_', 1, old) = tokens_
            /\ Len(added) > Abs(k)
            /\ \A i \in 1..Abs(k) : added[i] = IF k > 0 THEN Indent ELSE Dedent
            /\ added[Abs(k) + 1].type \notin Structural
            /\ \A i \in (Abs(k) + 1)..Len(added) : added[i] \notin {Indent, Dedent}
            /\ current_indent_' = n

C2_IndentDelta == [][C2_Step]_vars

\* Two Indent tokens before a token, later two Dedent tokens before a token, and a
\* third line at the indentation of the second.
C2_Witness ==
    /\ Len(tokens_) >= 9
    /\ SubSeq(tokens_, 1, 2) = <<Indent, Indent>>
    /\ tokens_[3].type = "Id"
    /\ tokens_[4] = Newline
    /\ SubSeq(tokens_, 5, 6) = <<Dedent, Dedent>>
    /\ tokens_[7].type = "Id"
    /\ tokens_[8] = Newline
    /\ tokens_[9].type = "Id"
    /\ current_indent_ = 0

-----------------------------------------------------------------------------
(* C3: a line of only spaces and/or a comment adds no token and does not   *)
(* change the current indentation, whatever its number of leading spaces:  *)
(* the lexer ends with the tokens and the indentation it ends with on the  *)
(* input without those lines.                                              *)

RECURSIVE WithoutBlankLines(_)
WithoutBlankLines(i) ==
    IF i > Len(Chars) THEN <<>>
    ELSE LET e == EndOfLine(i)
             last == IF e > Len(Chars) THEN Len(Chars) ELSE e
         IN  (IF HasToken(i) THEN SubSeq(Chars, i, last) ELSE <<>>)
                 \o WithoutBlankLines(e + 1)

RECURSIVE LexAll(_)
LexAll(st) ==
    IF st.status # "ok" \/ st.ret = Eof
    THEN st
    ELSE LexAll(NextTokenResult(st.in, st.tokens_, st.curr_pos_, st.current_indent_))

LexInput(chars) == LexAll(NextTokenResult(Stream(chars), <<>>, -1, 0))

C3_BlankLinesChangeNothing ==
    AtEof =>
        LET r == LexInput(WithoutBlankLines(1))
        IN  tokens_ = r.tokens_ /\ current_indent_ = r.current_indent_

-----------------------------------------------------------------------------
(* C4: every line holding a token gets exactly one Newline token, after    *)
(* its last token, also when it ends at the end of the input; so no        *)
(* Newline follows a Newline or starts the token stream.                   *)

C4_OneNewlinePerTokenLine ==
    lex_status = "ok" =>
        /\ Count(tokens_, Newline) = TokenLinesBefore(1, in_.pos)
        /\ \A i \in 1..Len(tokens_) :
               tokens_[i] = Newline =>
                   i > 1 /\ tokens_[i - 1].type \notin Structural
        /\ \A i \in 1..Len(tokens_) :
               tokens_[i].type \notin Structural =>
                   /\ i < Len(tokens_)
                   /\ tokens_[i + 1].type \notin {"Indent", "Dedent", "Eof"}

\* The input's last line holds two tokens and ends without a newline character; an
\* earlier line holds a token too.
C4_Witness ==
    /\ AtEof
    /\ Len(Chars) >= 8
    /\ Chars[Len(Chars)] = "#"
    /\ HasToken(Len(Chars) - 5)
    /\ Count(tokens_, Newline) = 2
    /\ Len(tokens_) >= 4
    /\ tokens_[Len(tokens_) - 2].type = "Char"
    /\ tokens_[Len(tokens_) - 1] = Newline

-----------------------------------------------------------------------------
(* C5: Eof occurs once, as the last token.  After construction the current *)
(* token is the first token; a NextToken call moves to the next token and  *)
(* returns it; once the current token is Eof, NextToken returns Eof and    *)
(* changes neither the current token nor the tokens.                       *)

IsPrefix(s, t) == Len(s) <= Len(t) /\ SubSeq(t, 1, Len(s)) = s

C5_EofLast == \A i \in 1..Len(tokens_) : tokens_[i] = Eof => i = Len(tokens_)

C5_Step ==
    /\ (~constructed /\ lex_status' = "ok") =>
           curr_pos_' = 0 /\ ret' = tokens_'[1]
    /\ (constructed /\ lex_status = "ok" /\ lex_status' = "ok"
            /\ tokens_[curr_pos_ + 1] # Eof) =>
           /\ curr_pos_' = curr_pos_ + 1
           /\ IsPrefix(tokens_, tokens_')
           /\ ret' = tokens_'[curr_pos_' + 1]
    /\ (constructed /\ lex_status = "ok" /\ tokens_[curr_pos_ + 1] = Eof) =>
           /\ ret' = Eof
           /\ tokens_' = tokens_
           /\ curr_pos_' = curr_pos_
           /\ lex_status' = "ok"

C5_TokenStream == []C5_EofLast /\ [][C5_Step]_vars

\* NextToken has been called after Eof was handed out, at the end of several tokens.
C5_Witness ==
    /\ after_eof
    /\ Len(tokens_) >= 6
    /\ curr_pos_ + 1 = Len(tokens_)
    /\ ret = Eof

-----------------------------------------------------------------------------
(* C6: a line holding a token after an odd number of leading spaces makes  *)
(* NextToken throw LexerError; nothing is appended to the tokens.          *)

C6_Step ==
    (MustRead /\ NextTokenLine(in_.pos) # 0
        /\ LeadingSpaces(NextTokenLine(in_.pos)) % 2 = 1) =>
           /\ lex_status' = "LexerError"
           /\ tokens_' = tokens_
           /\ ret' = NoToken

C6_OddIndentThrows == [][C6_Step]_vars

IsLineStart(i) == i = 1 \/ Chars[i - 1] = "\n"

\* NextToken has thrown on a line that holds a token, after handing out the tokens
\* of earlier lines.
C6_Witness ==
    /\ lex_status = "LexerError"
    /\ Len(tokens_) >= 3
    /\ curr_pos_ = Len(tokens_)
    /\ \E i \in 1..Len(Chars) :
           /\ IsLineStart(i)
           /\ HasToken(i)
           /\ LeadingSpaces(i) % 2 = 1
           /\ in_.pos = (IF EndOfLine(i) > Len(Chars) THEN EndOfLine(i)
                         ELSE EndOfLine(i) + 1)

-----------------------------------------------------------------------------
(* Reading the evaluator's state: the holders in the closure and in the    *)
(* fields of the instances, and what a dotted name resolves to.            *)

\* the evaluation state made of a closure and instances
Reading(closure, objects) ==
    [globals |-> closure, heap |-> objects, frames |-> <<>>, temps |-> <<>>,
     self_name |-> "", formal_params |-> DeclaredParams, calls |-> <<>>,
     output |-> "", ss |-> <<>>]

\* what the dotted name resolves to in the closure
ReadIn(closure, objects, dotted_ids) ==
    VariableValueExecute(VariableValue(dotted_ids), GlobalsRef, Reading(closure, objects))

\* the dotted name resolves to the instance id
HoldsInstance(closure, objects, dotted_ids, id) ==
    LET r == ReadIn(closure, objects, dotted_ids)
    IN  r.sig = "ok" /\ r.val.k = "Instance" /\ r.val.id = id

Slots == {<<v>> : v \in Variables} \cup {<<v, "f">> : v \in Variables}

StoredHolders ==
    Held(globals)
    \cup UNION {Held(heap[i].fields) : i \in {j \in 1..Len(heap) : heap[j].alive}}

-----------------------------------------------------------------------------
(* C7: ClassInstance.Call runs the method body in a fresh closure holding  *)
(* exactly self, bound to the receiver, and every formal parameter, bound  *)
(* to the actual argument at its position; and no call changes a method's  *)
(* formal parameters, so a further call binds the same names.              *)

C7_FreshClosure ==
    \A i \in 1..Len(calls) :
        LET c == calls[i]
            names == Methods(c.method.cls)[c.method.idx].formal_params
        IN  /\ c.fresh
            /\ {n \in Names : c.closure[n] # Absent}
                   = {"self"} \cup {names[k] : k \in 1..Len(names)}
            /\ c.closure["self"].k = "Instance"
            /\ c.closure["self"].id = c.self
            /\ Len(c.args) = Len(names)
            /\ \A k \in 1..Len(names) : c.closure[names[k]] = c.args[k]

C7_CallFrame == C7_FreshClosure /\ method_params = DeclaredParams

-----------------------------------------------------------------------------
(* C8: looking up a method name on a class yields the class's own method   *)
(* of that name if it declares one, otherwise what the lookup on its       *)
(* parent yields, and no method when there is no parent either.            *)

Declares(cls, name) == \E i \in 1..Len(Methods(cls)) : Methods(cls)[i].name = name

C8_Lookup ==
    \A cls \in ClassNames, name \in MethodNames :
        LET found == ClassGetMethod(cls, name)
        IN  IF Declares(cls, name)
            THEN found.cls = cls /\ Methods(cls)[found.idx].name = name
            ELSE IF Parent(cls) # NoClass
            THEN found = ClassGetMethod(Parent(cls), name)
            ELSE found = NoMethod

-----------------------------------------------------------------------------
(* C9: a FieldAssignment through a name sets the field in the instance the *)
(* name holds; every closure slot and every other field that held that     *)
(* instance before the FieldAssignment holds it afterwards and reads the   *)
(* assigned value in the field.                                            *)

C9_Step ==
    (/\ steps' = steps + 1
     /\ last_statement'.op = "FieldAssignment"
     /\ status' = "ok") =>
        LET object == ReadIn(globals, heap, last_statement'.ids).val
            field == last_statement'.s
            assigned(slot) ==
                /\ Len(slot) = 2
                /\ slot[2] = field
                /\ HoldsInstance(globals, heap, <<slot[1]>>, object.id)
        IN  \A slot \in Slots :
                (HoldsInstance(globals, heap, slot, object.id) /\ ~assigned(slot)) =>
                    /\ HoldsInstance(globals', heap', slot, object.id)
                    /\ ReadIn(globals', heap', slot \o <<field>>).sig = "ok"
                    /\ ReadIn(globals', heap', slot \o <<field>>).val = returned'

C9_AliasesSeeFieldAssignment == [][C9_Step]_vars

-----------------------------------------------------------------------------
(* C10: no holder in the closure or in the fields of an instance, and no   *)
(* holder a method call has returned, refers to a destroyed instance.      *)

C10_NoDanglingHolder ==
    status = "ok" =>
        /\ \A h \in StoredHolders : h.k = "Instance" => heap[h.id].alive
        /\ last_statement.op = "MethodCall" /\ returned.k = "Instance" =>
               heap[returned.id].alive \/ returned.own

-----------------------------------------------------------------------------
(* C11: when the Return in the if-branch of early(v) executes (v is true),  *)
(* the statements after it in the method body do not execute: nothing is    *)
(* written and no field of the receiver changes; the call yields the        *)
(* Return's value, and the caller's next statement still executes.          *)

EarlyThen == Compound(<<Early, Assignment("y", One)>>)

C11_Step ==
    (/\ steps' = steps + 1
     /\ last_statement' \in {Early, EarlyThen}
     /\ status' = "ok"
     /\ Len(calls') = 1
     /\ RuntimeIsTrue(globals["y"])) =>
        /\ output_' = output_
        /\ heap'[calls'[1].self].fields = heap[calls'[1].self].fields
        /\ last_statement' = Early => returned' = globals["y"]
        /\ last_statement' = EarlyThen => globals'["y"] = Number(1)

C11_ReturnUnwindsToMethodBody == [][C11_Step]_vars

C11_Witness ==
    /\ last_statement = EarlyThen
    /\ status = "ok"
    /\ Len(calls) = 1
    /\ calls[1].args = <<Number(2)>>
    /\ globals["y"] = Number(1)
    /\ output_ = ""

-----------------------------------------------------------------------------
(* C12: a call of a method whose body holds no Return (set and keep of      *)
(* class A, whose body is one FieldAssignment) yields the None holder.      *)

C12_NoReturnYieldsNone ==
    (/\ last_statement.op = "MethodCall"
     /\ last_statement.s \in {"set", "keep"}
     /\ status = "ok"
     /\ Len(calls) = 1) =>
        returned = None

-----------------------------------------------------------------------------
(* C13: a statement that executes a NewInstance which is not the right-hand *)
(* side of an Assignment (a Print argument, a method-call argument, the     *)
(* left operand of an Add) leaves every binding of the closure as it was.   *)

NewElsewhere ==
    {PrintArgs(<<NewInstance("D", <<>>)>>),
     Add(NewInstance("D", <<>>), Y),
     MethodCall(X, "early", <<NewInstance("D", <<>>)>>)}

C13_Step ==
    (/\ steps' = steps + 1
     /\ last_statement' \in NewElsewhere
     /\ status' = "ok") =>
        \A name \in DOMAIN globals :
            globals[name] # Absent => globals'[name] = globals[name]

C13_SelfNameOnlyForItsAssignment == [][C13_Step]_vars

-----------------------------------------------------------------------------
(* C14: the comparison x == y yields the equality of the payloads when both *)
(* are Bool, both Number or both String, the result of x.__eq__(y) when x   *)
(* is an instance of D (whose __eq__(v) returns v; taken here for a Bool    *)
(* y), true when both are None, and a runtime error in every other case.    *)

YieldsBool(b) == status = "ok" /\ returned.k = "Bool" /\ returned.b = b

C14_Equal ==
    last_statement = Comparison("Equal", X, Y) =>
        LET a == globals["x"]
            b == globals["y"]
        IN  CASE BothAs(a, b, "Bool") -> YieldsBool(a.b = b.b)
              [] BothAs(a, b, "Number") -> YieldsBool(a.n = b.n)
              [] BothAs(a, b, "String") -> YieldsBool(a.s = b.s)
              [] a.k = "Instance" /\ heap[a.id].cls = "D" ->
                    b.k = "Bool" => YieldsBool(b.b)
              [] BothAs(a, b, "None") -> YieldsBool(TRUE)
              [] OTHER -> status = "error"

-----------------------------------------------------------------------------
(* C15: on two Bools, two Numbers or two Strings, x != y yields the         *)
(* negation of Equal, x > y the negation of (Less or Equal), x <= y the     *)
(* negation of Greater and x >= y the negation of Less; none of the four    *)
(* raises an error.                                                         *)

SameKind(a, b) == \E k \in {"Bool", "Number", "String"} : BothAs(a, b, k)

IsEqual(a, b) == Equal(Start, a, b).val.b

IsLess(a, b) == Less(Start, a, b).val.b

IsGreater(a, b) == ~(IsLess(a, b) \/ IsEqual(a, b))

C15_NegatedComparators ==
    \A cmp \in {"NotEqual", "Greater", "LessOrEqual", "GreaterOrEqual"} :
        (/\ last_statement = Comparison(cmp, X, Y)
         /\ SameKind(globals["x"], globals["y"])) =>
            LET a == globals["x"]
                b == globals["y"]
            IN  CASE cmp = "NotEqual" -> YieldsBool(~IsEqual(a, b))
                  [] cmp = "Greater" -> YieldsBool(IsGreater(a, b))
                  [] cmp = "LessOrEqual" -> YieldsBool(~IsGreater(a, b))
                  [] cmp = "GreaterOrEqual" -> YieldsBool(~IsLess(a, b))

-----------------------------------------------------------------------------
(* C16: IsTrue is false for None, b for Bool b, n # 0 for Number n, s # ""  *)
(* for String s and false for every Class and ClassInstance value: the      *)
(* statement "if x: one else: two" runs the branch that this table names.   *)

C16_IsTrue ==
    last_statement = IfElse(X, One, Two) =>
        LET a == globals["x"]
            truth == CASE a.k = "None" -> FALSE
                       [] a.k = "Bool" -> a.b
                       [] a.k = "Number" -> a.n # 0
                       [] a.k = "String" -> a.s # ""
                       [] a.k \in {"Class", "Instance"} -> FALSE
        IN  /\ status = "ok"
            /\ returned = (IF truth THEN Number(1) ELSE Number(2))

-----------------------------------------------------------------------------
(* C17: for all values of x and y, None included, "x and y", "x or y" and   *)
(* "not x" yield the Bool that IsTrue of the operands gives, and raise no   *)
(* runtime error.                                                           *)

C17_Logical ==
    LET a == RuntimeIsTrue(globals["x"])
        b == RuntimeIsTrue(globals["y"])
    IN  /\ last_statement = And(X, Y) => YieldsBool(a /\ b)
        /\ last_statement = Or(X, Y) => YieldsBool(a \/ b)
        /\ last_statement = Not(X) => YieldsBool(~a)

-----------------------------------------------------------------------------
(* C18: x / y on two Numbers raises a runtime error when y is 0, and the    *)
(* statement after the Div (y = one) does not execute; when y is not 0 it   *)
(* yields the Number quotient truncated toward zero.                        *)

DivThen == Compound(<<Div(X, Y), Assignment("y", One)>>)

\* q is n / d with the fractional part dropped: the remainder is smaller in
\* magnitude than d and has the sign of n
Truncated(q, n, d) ==
    \E r \in -Abs(d)..Abs(d) :
        /\ q * d + r = n
        /\ Abs(r) < Abs(d)
        /\ r * n >= 0

C18_Step ==
    (/\ steps' = steps + 1
     /\ last_statement' \in {Div(X, Y), DivThen}
     /\ BothAs(globals["x"], globals["y"], "Number")) =>
        IF globals["y"].n = 0
        THEN /\ status' = "error"
             /\ globals'["y"] = globals["y"]
        ELSE /\ status' = "ok"
             /\ last_statement' = Div(X, Y) =>
                    /\ returned'.k = "Number"
                    /\ Truncated(returned'.n, globals["x"].n, globals["y"].n)

C18_Div == [][C18_Step]_vars

-----------------------------------------------------------------------------
(* C19: x + y yields the sum of two Numbers, the concatenation of two       *)
(* Strings, and, when x is an instance of D (whose __add__(v) returns v),   *)
(* the result of x.__add__(y) for every y, None included; every other pair  *)
(* of operands is a runtime error.                                          *)

SameObject(g, h) == [g EXCEPT !.own = TRUE] = [h EXCEPT !.own = TRUE]

C19_Add ==
    last_statement = Add(X, Y) =>
        LET a == globals["x"]
            b == globals["y"]
        IN  CASE BothAs(a, b, "Number") ->
                    status = "ok" /\ returned = Number(a.n + b.n)
              [] BothAs(a, b, "String") ->
                    status = "ok" /\ returned = String(a.s \o b.s)
              [] a.k = "Instance" /\ heap[a.id].cls = "D" ->
                    status = "ok" /\ SameObject(returned, b)
              [] OTHER -> status = "error"

-----------------------------------------------------------------------------
(* C20: the dotted names x.y and x.f resolve x in the closure and the       *)
(* second identifier only in the fields of the instance that x holds: when  *)
(* x holds no instance, or the instance has no such field, the result is a  *)
(* runtime error; no value of another scope is yielded.                     *)

C20_DottedName ==
    \A id \in {"y", "f"} :
        last_statement = VariableValue(<<"x", id>>) =>
            LET a == globals["x"]
            IN  IF a.k = "Instance" /\ heap[a.id].fields[id] # Absent
                THEN status = "ok" /\ SameObject(returned, heap[a.id].fields[id])
                ELSE status = "error"

-----------------------------------------------------------------------------
(* C21: a MethodCall on x yields None, raises no error and runs no method   *)
(* body when x holds no class instance or when the lookup of the method's   *)
(* name along the class chain of x's instance gives no method with as many  *)
(* formal parameters as there are arguments; otherwise it yields what       *)
(* ClassInstance::Call yields for the argument values in their order.       *)

\* the methods that class cls itself declares under a name
DeclaredIn(cls, name) == {i \in 1..Len(Methods(cls)) : Methods(cls)[i].name = name}

\* the class of the chain cls, parent(cls), ... whose declaration the name stands for
RECURSIVE Declaring(_, _)
Declaring(cls, name) ==
    IF cls = NoClass \/ DeclaredIn(cls, name) # {}
    THEN cls
    ELSE Declaring(Parent(cls), name)

\* the formal parameters of the method the name stands for on an instance of cls
ParamsOf(cls, name) ==
    LET c == Declaring(cls, name)
    IN  Methods(c)[CHOOSE i \in DeclaredIn(c, name) : \A j \in DeclaredIn(c, name) : j <= i]
            .formal_params

Matching(cls, name, k) ==
    /\ Declaring(cls, name) # NoClass
    /\ Len(ParamsOf(cls, name)) = k

EndsAs(sig) == IF sig \in {"ok", "ub"} THEN sig ELSE "error"

C21_Step ==
    (/\ steps' = steps + 1
     /\ last_statement' \in MethodCallsOnX) =>
        LET a == globals["x"]
            method == last_statement'.s
            args == Tail(last_statement'.kids)
            actual_args == [i \in 1..Len(args) |-> globals[args[i].ids[1]]]
        IN  IF a.k # "Instance" \/ ~Matching(heap[a.id].cls, method, Len(args))
            THEN /\ status' = "ok"
                 /\ returned' = None
                 /\ calls' = <<>>
                 /\ heap' = heap
                 /\ output_' = output_
            ELSE LET r == ClassInstanceCall(Start, a.id, method, actual_args)
                 IN  /\ status' = EndsAs(r.sig)
                     /\ r.sig = "ok" => SameObject(returned', r.val)
                     /\ calls' = r.st.calls

C21_MethodCall == [][C21_Step]_vars

-----------------------------------------------------------------------------
(* C22: ClassInstance::Call on x's instance raises a runtime error, runs no *)
(* method body and changes no field (nor anything else) when the lookup of  *)
(* the name gives no method with as many formal parameters as there are     *)
(* arguments; a body runs only for a method of that name and that number    *)
(* of parameters.                                                           *)

C22_Step ==
    (/\ steps' = steps + 1
     /\ last_statement' \in DirectCalls) =>
        LET cls == heap[globals["x"].id].cls
            method == last_statement'.s
            k == Len(last_statement'.ids)
        IN  /\ ~Matching(cls, method, k) =>
                /\ status' = "error"
                /\ calls' = <<>>
                /\ heap' = heap
                /\ globals' = globals
                /\ output_' = output_
            /\ calls' # <<>> =>
                /\ Methods(calls'[1].method.cls)[calls'[1].method.idx].name = method
                /\ Len(Methods(calls'[1].method.cls)[calls'[1].method.idx].formal_params) = k

C22_CallChecksArity == [][C22_Step]_vars

\* Call("set", one argument) on an instance of E, whose set() takes none, has raised
C22_Witness ==
    /\ last_statement = DirectCall("set", <<"y">>)
    /\ globals["x"].k = "Instance"
    /\ heap[globals["x"].id].cls = "E"
    /\ status = "error"
    /\ calls = <<>>

-----------------------------------------------------------------------------
(* C23: printing x, an instance whose class or an ancestor has a            *)
(* zero-parameter __str__ that returns a value, writes the print form of    *)
(* that value: "print x" writes it and a newline to the output, and         *)
(* Stringify of x yields a String of it.                                    *)

PrintForm(h) ==
    CASE h.k = "None" -> "None"
      [] h.k = "Number" -> Decimal(h.n)
      [] h.k = "String" -> h.s
      [] h.k = "Bool" -> IF h.b THEN "True" ELSE "False"
      [] h.k = "Class" -> "Class " \o h.s

\* what __str__ returns on x's instance, when it returns
StrOfX == ClassInstanceCall(Start, globals["x"].id, STR_METHOD, <<>>)

C23_Step ==
    (/\ steps' = steps + 1
     /\ last_statement' \in {PrintArgs(<<X>>), Stringify(X)}
     /\ globals["x"].k = "Instance"
     /\ Matching(heap[globals["x"].id].cls, STR_METHOD, 0)
     /\ StrOfX.sig = "ok") =>
        /\ status' = "ok"
        /\ last_statement' = PrintArgs(<<X>>) =>
               output_' = output_ \o PrintForm(StrOfX.val) \o "\n"
        /\ last_statement' = Stringify(X) =>
               /\ returned' = String(PrintForm(StrOfX.val))
               /\ output_' = output_

C23_PrintCallsStr == [][C23_Step]_vars

-----------------------------------------------------------------------------
(* C28: the lookup selects by name and the arity is checked afterwards.  E  *)
(* declares set() and its parent A declares set(v): on an instance of E,    *)
(* HasMethod("set", 1) is false, Call of set with one argument raises a     *)
(* runtime error and the MethodCall x.set(y) yields None; A's set is never  *)
(* reached (no body runs, no field is set).  E declares dup(v) and then     *)
(* dup(): only dup() is found.                                              *)

XIsAn(cls) == globals["x"].k = "Instance" /\ heap[globals["x"].id].cls = cls

C28_Step ==
    (steps' = steps + 1 /\ XIsAn("E")) =>
        /\ ~HasMethod(Start, globals["x"].id, "set", 1)
        /\ ~HasMethod(Start, globals["x"].id, "dup", 1)
        /\ HasMethod(Start, globals["x"].id, "dup", 0)
        /\ last_statement' \in {DirectCall("set", <<"y">>), DirectCall("dup", <<"y">>)} =>
               status' = "error" /\ calls' = <<>> /\ heap' = heap
        /\ last_statement' \in {MethodCall(X, "set", <<Y>>), MethodCall(X, "dup", <<Y>>)} =>
               status' = "ok" /\ returned' = None /\ calls' = <<>> /\ heap' = heap
        /\ last_statement' \in {DirectCall("dup", <<>>), MethodCall(X, "dup", <<>>)} =>
               /\ Len(calls') = 1
               /\ calls'[1].method = MethodPtr("E", 3)
        /\ last_statement' \in {DirectCall("set", <<>>), MethodCall(X, "set", <<>>)} =>
               /\ Len(calls') = 1
               /\ calls'[1].method = MethodPtr("E", 1)

C28_LookupByNameThenArity == [][C28_Step]_vars

\* x.set(y) on an instance of E has yielded None without a call, and x has no field f
C28_Witness ==
    /\ last_statement = MethodCall(X, "set", <<Y>>)
    /\ XIsAn("E")
    /\ globals["y"] = Number(2)
    /\ status = "ok"
    /\ returned = None
    /\ calls = <<>>
    /\ heap[globals["x"].id].fields["f"] = Absent

-----------------------------------------------------------------------------
(* C29: a method body is isolated from its caller's scope.  On an instance  *)
(* of E, peek(), whose body reads the caller's variable two, ends in a      *)
(* runtime error; assign(v), whose body assigns y and f, and make(), whose  *)
(* body assigns y a new instance, create or change no binding of the        *)
(* caller's closure and no field of the receiver.                           *)

C29_Step ==
    (/\ steps' = steps + 1
     /\ XIsAn("E")
     /\ last_statement' \in
            {MethodCall(X, "peek", <<>>), DirectCall("peek", <<>>),
             MethodCall(X, "assign", <<Y>>), DirectCall("assign", <<"y">>),
             MethodCall(X, "make", <<>>), DirectCall("make", <<>>)}) =>
        /\ Len(calls') = 1
        /\ globals' = globals
        /\ heap'[globals["x"].id].fields = heap[globals["x"].id].fields
        /\ last_statement'.s = "peek" => status' = "error"
        /\ last_statement'.s = "assign" => status' = "ok" /\ returned' = globals["y"]
        /\ last_statement'.s = "make" => status' = "ok"

C29_BodyIsolated == [][C29_Step]_vars

-----------------------------------------------------------------------------
(* C24: a `!` that is not immediately followed by `=` makes the lexer fail  *)
(* with LexerError, and no Char token with the value '!' is ever emitted;   *)
(* a line that is one of the pairs ==, !=, <=, >= yields the single token   *)
(* Eq, NotEq, LessOrEq, GreaterOrEq.                                        *)

\* The line that a reading NextToken call starts at.
LineRead == SubSeq(Chars, in_.pos, EndOfLine(in_.pos) - 1)

LoneBang(line) ==
    \E i \in 1..Len(line) : line[i] = "!" /\ (i = Len(line) \/ line[i + 1] # "=")

PairToken(a) ==
    CASE a = "=" -> Tok("Eq", "")
      [] a = "!" -> Tok("NotEq", "")
      [] a = "<" -> Tok("LessOrEq", "")
      [] a = ">" -> Tok("GreaterOrEq", "")

C24_Pairs ==
    \A a \in {"=", "!", "<", ">"} :
        (MustRead /\ LineRead = <<a, "=">>) =>
            /\ lex_status' = "ok"
            /\ tokens_' \in {tokens_ \o <<PairToken(a), Newline>>,
                             tokens_ \o <<PairToken(a), Newline, Eof>>}

C24_Step ==
    /\ \A i \in 1..Len(tokens_') : tokens_'[i] # Tok("Char", "!")
    /\ (MustRead /\ LoneBang(LineRead)) => lex_status' = "LexerError"
    /\ C24_Pairs

C24_LoneBangThrows == [][C24_Step]_vars

-----------------------------------------------------------------------------
(* C25: a line that is a number literal of one or more decimal digits lexes *)
(* to one Number token whose value is the literal's decimal value, for      *)
(* every value up to 2^63 - 1: a literal above 2^31 - 1 is neither          *)
(* rejected nor wrapped.                                                    *)

IsLiteral(line) == line # <<>> /\ \A i \in 1..Len(line) : IsDigit(line[i])

\* the decimal digits of a natural number
RECURSIVE DigitsOf(_)
DigitsOf(n) == IF n < 10 THEN <<n>> ELSE Append(DigitsOf(n \div 10), n % 10)

\* the decimal digits of the number that a literal stands for
ValueDigits(line) ==
    LET ds == Significant([i \in 1..Len(line) |-> (CHOOSE d \in 1..10 : Decimals[d] = line[i]) - 1])
    IN  IF ds = <<>> THEN <<0>> ELSE ds

\* the tokens that tokens_ gets in this step
Added == SubSeq(tokens_', Len(tokens_) + 1, Len(tokens_'))

C25_Step ==
    (MustRead /\ IsLiteral(LineRead)) =>
        /\ lex_status' = "ok"
        /\ Len(Added) \in {2, 3}
        /\ Added[1].type = "Number"
        /\ DigitsOf(Added[1].n) = ValueDigits(LineRead)
        /\ Added[2] = Newline
        /\ Len(Added) = 3 => Added[3] = Eof

C25_NumberValue == [][C25_Step]_vars

-----------------------------------------------------------------------------
(* C26: in every reachable state of the lexer, the number of Indent tokens  *)
(* emitted so far minus the number of Dedent tokens emitted so far is not   *)
(* negative and equals current_indent_ / 2, also after Eof has been emitted *)
(* for an input that ends with spaces.                                      *)

Depth == Count(tokens_, Indent) - Count(tokens_, Dedent)

C26_DepthIsIndent == Depth >= 0 /\ Depth = current_indent_ \div 2

-----------------------------------------------------------------------------
(* C27: a line of only spaces and/or a comment never raises the bad-indent  *)
(* LexerError, also when it has an odd number of leading spaces and is the  *)
(* last line of the input with no newline character at its end: a call      *)
(* that throws has met a line holding a token, with an odd number of        *)
(* leading spaces.                                                          *)

C27_Step ==
    (MustRead /\ lex_status' = "LexerError") =>
        /\ NextTokenLine(in_.pos) # 0
        /\ LeadingSpaces(NextTokenLine(in_.pos)) % 2 = 1

C27_BlankLinesNeverThrow == [][C27_Step]_vars

====
